---- MODULE Spec2Model ----
(***************************************************************************)
(* Model of the colour engine of mcp-omni-tool (src/main.go):              *)
(* toolAnalyzeColor and the colour helpers it calls, and the server loop   *)
(* that dispatches requests to it.                                         *)
(*                                                                         *)
(* Strings are sequences of one-character strings.  float64 values are     *)
(* exact rationals [n |-> numerator, d |-> denominator], d > 0; a division *)
(* by zero yields NotFinite.                                               *)
(***************************************************************************)
EXTENDS Integers, Sequences, FiniteSets, TLC

VARIABLES pc, input, color, report, err

vars == <<pc, input, color, report, err>>

\* the nil interface value
Nil == [nil |-> TRUE]

(***************************************************************************)
(* Bounds of the model.                                                    *)
(***************************************************************************)
\* longest generated string of hex-family characters (without the '#')
MaxHexLen == 8

\* number of leading characters of a generated hex-family string that are
\* chosen freely
HexPeriod == 4

\* largest integer channel token generated for rgb(...)
MaxChannelToken == 257

\* distance between the channel values handed to the conversion helpers
ChannelStep == 36

\* number of invocations of toolAnalyzeColor that may be in progress at once
MaxCallers == 2

\* number of lines the server reads from standard input
MaxLines == 2

(***************************************************************************)
(* Characters and strings (package strings, unicode).                      *)
(***************************************************************************)
Digits == <<"0", "1", "2", "3", "4", "5", "6", "7", "8", "9">>

UpperLetters ==
    <<"A", "B", "C", "D", "E", "F", "G", "H", "I", "J", "K", "L", "M",
      "N", "O", "P", "Q", "R", "S", "T", "U", "V", "W", "X", "Y", "Z">>

LowerLetters ==
    <<"a", "b", "c", "d", "e", "f", "g", "h", "i", "j", "k", "l", "m",
      "n", "o", "p", "q", "r", "s", "t", "u", "v", "w", "x", "y", "z">>

HexDigitsUpper == <<"0", "1", "2", "3", "4", "5", "6", "7", "8", "9",
                    "A", "B", "C", "D", "E", "F">>

HexDigitsLower == <<"0", "1", "2", "3", "4", "5", "6", "7", "8", "9",
                    "a", "b", "c", "d", "e", "f">>

WhiteSpace == {" ", "\t", "\n", "\r"}

Range(s) == {s[i] : i \in 1..Len(s)}

IsDigit(c) == c \in Range(Digits)

DigitVal(c) == (CHOOSE i \in 1..10 : Digits[i] = c) - 1

IsHexDigit(c) == c \in Range(HexDigitsUpper) \cup Range(HexDigitsLower)

HexVal(c) ==
    IF c \in Range(HexDigitsLower)
    THEN (CHOOSE i \in 1..16 : HexDigitsLower[i] = c) - 1
    ELSE (CHOOSE i \in 1..16 : HexDigitsUpper[i] = c) - 1

\* unicode.ToLower / unicode.ToUpper on one character
ToLowerChar(c) ==
    IF c \in Range(UpperLetters)
    THEN LowerLetters[CHOOSE i \in 1..26 : UpperLetters[i] = c]
    ELSE c

ToUpperChar(c) ==
    IF c \in Range(LowerLetters)
    THEN UpperLetters[CHOOSE i \in 1..26 : LowerLetters[i] = c]
    ELSE c

\* strings.ToLower, strings.ToUpper
ToLower(s) == [i \in 1..Len(s) |-> ToLowerChar(s[i])]

ToUpper(s) == [i \in 1..Len(s) |-> ToUpperChar(s[i])]

\* strings.TrimSpace: drop leading and trailing white space
TrimSpace(s) ==
    LET keep == {i \in 1..Len(s) : s[i] \notin WhiteSpace}
    IN  IF keep = {} THEN <<>>
        ELSE LET lo == CHOOSE i \in keep : \A j \in keep : i <= j
                 hi == CHOOSE i \in keep : \A j \in keep : j <= i
             IN  SubSeq(s, lo, hi)

\* strings.HasPrefix, strings.TrimPrefix
HasPrefix(s, p) == Len(s) >= Len(p) /\ SubSeq(s, 1, Len(p)) = p

TrimPrefix(s, p) == IF HasPrefix(s, p) THEN SubSeq(s, Len(p) + 1, Len(s)) ELSE s

\* isHex: hex.DecodeString succeeds on an even number of hexadecimal digits
isHex(s) == Len(s) % 2 = 0 /\ \A i \in 1..Len(s) : IsHexDigit(s[i])

(***************************************************************************)
(* fmt.Sscanf with the verbs %1x / %02x.  Each verb skips white space,     *)
(* then reads at most wid characters: an optional sign and hexadecimal     *)
(* digits.  The first verb that fails ends the scan; destinations not      *)
(* reached keep their previous value.  The result is the sequence of the   *)
(* values scanned.                                                         *)
(***************************************************************************)
RECURSIVE SkipSpace(_, _)
SkipSpace(s, pos) ==
    IF pos <= Len(s) /\ s[pos] \in {" ", "\t", "\r"}
    THEN SkipSpace(s, pos + 1)
    ELSE pos

RECURSIVE ScanDigits(_, _, _, _)
\* reads hexadecimal digits from pos up to (not including) limit;
\* returns <<value, next position, number of digits>>
ScanDigits(s, pos, limit, acc) ==
    IF pos <= Len(s) /\ pos < limit /\ IsHexDigit(s[pos])
    THEN ScanDigits(s, pos + 1, limit, <<acc[1] * 16 + HexVal(s[pos]), pos + 1, acc[3] + 1>>)
    ELSE acc

RECURSIVE SscanfHex(_, _, _, _)
SscanfHex(s, pos, wid, count) ==
    IF count = 0 THEN <<>>
    ELSE LET p0     == SkipSpace(s, pos)
             limit  == p0 + wid
             signed == p0 <= Len(s) /\ s[p0] \in {"+", "-"}
             p1     == IF signed THEN p0 + 1 ELSE p0
             d      == ScanDigits(s, p1, limit, <<0, p1, 0>>)
         IN  IF p0 > Len(s) \/ d[3] = 0 THEN <<>>
             ELSE <<IF signed /\ s[p0] = "-" THEN 0 - d[1] ELSE d[1]>>
                  \o SscanfHex(s, d[2], wid, count - 1)

\* the value a destination holds after the scan
Scanned(vals, i, old) == IF i <= Len(vals) THEN vals[i] ELSE old

(***************************************************************************)
(* fmt.Sprintf verbs %d and %02x.                                          *)
(***************************************************************************)
RECURSIVE FormatDigits(_, _, _)
FormatDigits(n, base, table) ==
    IF n < base THEN <<table[n + 1]>>
    ELSE FormatDigits(n \div base, base, table) \o <<table[(n % base) + 1]>>

\* %d
FormatInt(n) ==
    IF n < 0 THEN <<"-">> \o FormatDigits(0 - n, 10, Digits)
    ELSE FormatDigits(n, 10, Digits)

\* FormatHex02 with the verb %x: no zero padding
FormatHex02_Unpadded(n) ==
    IF n < 0 THEN <<"-">> \o FormatDigits(0 - n, 16, HexDigitsLower)
    ELSE FormatDigits(n, 16, HexDigitsLower)

\* %02x: lower-case hexadecimal, zero-padded to two characters
FormatHex02(n) ==
    LET t == IF n < 0 THEN <<"-">> \o FormatDigits(0 - n, 16, HexDigitsLower)
             ELSE FormatDigits(n, 16, HexDigitsLower)
    IN  IF Len(t) < 2 THEN <<"0">> \o t ELSE t

(***************************************************************************)
(* float64 arithmetic, modelled exactly over the rationals.                *)
(***************************************************************************)
RECURSIVE GCD(_, _)
GCD(a, b) == IF b = 0 THEN a ELSE GCD(b, a % b)

Abs(x) == IF x < 0 THEN 0 - x ELSE x

NotFinite == [n |-> 0, d |-> 0]

Finite(x) == x.d # 0

\* the rational n/d in lowest terms
Rat(n, d) ==
    IF d = 0 THEN NotFinite
    ELSE LET g == GCD(Abs(n), Abs(d))
             sg == IF d < 0 THEN 0 - 1 ELSE 1
         IN  [n |-> sg * (n \div g), d |-> sg * (d \div g)]

RInt(i) == [n |-> i, d |-> 1]

RNeg(x) == [n |-> 0 - x.n, d |-> x.d]

RAdd(x, y) ==
    IF x.d = 0 \/ y.d = 0 THEN NotFinite
    ELSE LET g == GCD(x.d, y.d)
         IN  Rat(x.n * (y.d \div g) + y.n * (x.d \div g), x.d * (y.d \div g))

RSub(x, y) == RAdd(x, RNeg(y))

RMul(x, y) ==
    IF x.d = 0 \/ y.d = 0 THEN NotFinite
    ELSE LET g1 == GCD(Abs(x.n), y.d)
             g2 == GCD(Abs(y.n), x.d)
         IN  Rat((x.n \div g1) * (y.n \div g2), (x.d \div g2) * (y.d \div g1))

RDiv(x, y) ==
    IF x.d = 0 \/ y.d = 0 \/ y.n = 0 THEN NotFinite
    ELSE RMul(x, IF y.n < 0 THEN [n |-> 0 - y.d, d |-> 0 - y.n]
                 ELSE [n |-> y.d, d |-> y.n])

RFloor(x) == x.n \div x.d

\* x < y; a comparison with a non-finite operand is false, as with NaN
RECURSIVE RLess(_, _)
RLess(x, y) ==
    IF x.d = 0 \/ y.d = 0 THEN FALSE
    ELSE LET fx == RFloor(x)
             fy == RFloor(y)
             rx == x.n - fx * x.d
             ry == y.n - fy * y.d
         IN  IF fx # fy THEN fx < fy
             ELSE IF ry = 0 THEN FALSE
             ELSE IF rx = 0 THEN TRUE
             ELSE RLess([n |-> y.d, d |-> ry], [n |-> x.d, d |-> rx])

RLeq(x, y) == x.d # 0 /\ y.d # 0 /\ ~RLess(y, x)

RAbs(x) == IF x.n < 0 THEN RNeg(x) ELSE x

\* math.Max, math.Min
RMax(x, y) == IF RLess(x, y) THEN y ELSE x

RMin(x, y) == IF RLess(y, x) THEN y ELSE x

\* Go's float-to-int conversion int(x): truncation toward zero
Trunc(x) == IF x.n >= 0 THEN x.n \div x.d ELSE 0 - ((0 - x.n) \div x.d)

\* math.Round: to nearest, halves away from zero
MathRound(x) ==
    IF x.n >= 0 THEN (2 * x.n + x.d) \div (2 * x.d)
    ELSE 0 - ((2 * (0 - x.n) + x.d) \div (2 * x.d))

\* math.Mod(x, m) for an integer m > 0: the result has the sign of x
MathMod(x, m) == RSub(x, RInt(m * Trunc(RDiv(x, RInt(m)))))

\* round(x) of main.go
round(x) == MathRound(x)

RECURSIVE Pow10(_)
Pow10(k) == IF k = 0 THEN 1 ELSE 10 * Pow10(k - 1)

\* roundDig(x, n) of main.go
roundDig(x, n) == IF x.d = 0 THEN NotFinite
                  ELSE Rat(MathRound(RMul(x, RInt(Pow10(n)))), Pow10(n))

\* clampInt of main.go
clampInt(v) ==
    IF RLess(v, RInt(0)) THEN 0
    ELSE IF RLess(RInt(255), v) THEN 255
    ELSE MathRound(v)

(***************************************************************************)
(* Numeric tokens: regexp.FindAllString with the patterns \d+, [\d.]+ and  *)
(* -?[\d.]+, then strconv.Atoi and strconv.ParseFloat.                     *)
(***************************************************************************)
IsTokenChar(c, dots) == IsDigit(c) \/ (dots /\ c = ".")

RECURSIVE RunEnd(_, _, _)
\* last position of the run of token characters that starts at pos
RunEnd(s, pos, dots) ==
    IF pos < Len(s) /\ IsTokenChar(s[pos + 1], dots)
    THEN RunEnd(s, pos + 1, dots)
    ELSE pos

RECURSIVE FindAllString(_, _, _, _, _)
\* the first max leftmost matches in s from position pos on
FindAllString(s, pos, dots, minus, max) ==
    IF max = 0 \/ pos > Len(s) THEN <<>>
    ELSE IF minus /\ s[pos] = "-" /\ pos < Len(s) /\ IsTokenChar(s[pos + 1], dots)
    THEN LET e == RunEnd(s, pos + 1, dots)
         IN  <<SubSeq(s, pos, e)>> \o FindAllString(s, e + 1, dots, minus, max - 1)
    ELSE IF IsTokenChar(s[pos], dots)
    THEN LET e == RunEnd(s, pos, dots)
         IN  <<SubSeq(s, pos, e)>> \o FindAllString(s, e + 1, dots, minus, max - 1)
    ELSE FindAllString(s, pos + 1, dots, minus, max)

RECURSIVE DecimalValue(_)
\* the value of a string of decimal digits
DecimalValue(t) ==
    IF t = <<>> THEN 0
    ELSE 10 * DecimalValue(SubSeq(t, 1, Len(t) - 1)) + DigitVal(t[Len(t)])

\* strconv.Atoi with the error discarded: a token that is not an optionally
\* signed string of digits yields 0
Atoi(t) ==
    LET neg  == t # <<>> /\ t[1] = "-"
        body == IF t # <<>> /\ t[1] \in {"+", "-"} THEN Tail(t) ELSE t
    IN  IF body = <<>> \/ \E i \in 1..Len(body) : ~IsDigit(body[i]) THEN 0
        ELSE IF neg THEN 0 - DecimalValue(body) ELSE DecimalValue(body)

\* strconv.ParseFloat with the error discarded: digits with at most one
\* '.', at least one digit; anything else yields 0
ParseFloat(t) ==
    LET neg    == t # <<>> /\ t[1] = "-"
        body   == IF t # <<>> /\ t[1] \in {"+", "-"} THEN Tail(t) ELSE t
        dots   == {i \in 1..Len(body) : body[i] = "."}
        digits == SelectSeq(body, IsDigit)
        frac   == IF dots = {} THEN 0 ELSE Len(body) - (CHOOSE i \in dots : TRUE)
        v      == Rat(DecimalValue(digits), Pow10(frac))
    IN  IF Cardinality(dots) > 1 \/ digits = <<>>
           \/ \E i \in 1..Len(body) : ~IsTokenChar(body[i], TRUE)
        THEN RInt(0)
        ELSE IF neg THEN RNeg(v) ELSE v

\* the alpha rule shared by every functional notation
AlphaFromToken(t) ==
    LET Alpha(alphaF) == IF RLeq(alphaF, RInt(1)) THEN Trunc(RMul(alphaF, RInt(255)))
                         ELSE Trunc(alphaF)
    IN  Alpha(ParseFloat(t))

(***************************************************************************)
(* Colour helpers: forward conversions (RGB to a space).                   *)
(***************************************************************************)
Channel(x) == Rat(x, 255)

\* Hue whose cases gf and bf add each other's offset
Hue_OffsetsSwapped(rf, gf, bf, max, d) ==
    IF max = rf
    THEN RAdd(RDiv(RSub(gf, bf), d), IF RLess(gf, bf) THEN RInt(6) ELSE RInt(0))
    ELSE IF max = gf
    THEN RAdd(RDiv(RSub(bf, rf), d), RInt(4))
    ELSE RAdd(RDiv(RSub(rf, gf), d), RInt(2))

\* the hue sextant computed by the switch on max, before "h *= 60"
Hue(rf, gf, bf, max, d) ==
    IF max = rf
    THEN RAdd(RDiv(RSub(gf, bf), d), IF RLess(gf, bf) THEN RInt(6) ELSE RInt(0))
    ELSE IF max = gf
    THEN RAdd(RDiv(RSub(bf, rf), d), RInt(2))
    ELSE RAdd(RDiv(RSub(rf, gf), d), RInt(4))

rgbToHSL(r, g, b) ==
    LET Chromatic(rf, gf, bf, max, min, l, d) ==
            [h |-> RMul(Hue(rf, gf, bf, max, d), RInt(60)),
             s |-> IF RLess(Rat(1, 2), l)
                   THEN RDiv(d, RSub(RSub(RInt(2), max), min))
                   ELSE RDiv(d, RAdd(max, min)),
             l |-> l]
        Lightness(rf, gf, bf, max, min, l) ==
            IF max # min
            THEN Chromatic(rf, gf, bf, max, min, l, RSub(max, min))
            ELSE [h |-> RInt(0), s |-> RInt(0), l |-> l]
        Extremes(rf, gf, bf, max, min) ==
            Lightness(rf, gf, bf, max, min, RDiv(RAdd(max, min), RInt(2)))
        Floats(rf, gf, bf) ==
            Extremes(rf, gf, bf, RMax(rf, RMax(gf, bf)), RMin(rf, RMin(gf, bf)))
    IN  Floats(Channel(r), Channel(g), Channel(b))

rgbToHSV(r, g, b) ==
    LET Delta(rf, gf, bf, max, min, d) ==
            [h |-> IF max # min THEN RMul(Hue(rf, gf, bf, max, d), RInt(60))
                   ELSE RInt(0),
             s |-> IF max # RInt(0) THEN RDiv(d, max) ELSE RInt(0),
             v |-> max]
        Extremes(rf, gf, bf, max, min) ==
            Delta(rf, gf, bf, max, min, RSub(max, min))
        Floats(rf, gf, bf) ==
            Extremes(rf, gf, bf, RMax(rf, RMax(gf, bf)), RMin(rf, RMin(gf, bf)))
    IN  Floats(Channel(r), Channel(g), Channel(b))

\* rgbToCMYK whose guard for black returns all zeros
rgbToCMYK_BlackKeyZero(r, g, b) ==
    IF r = 0 /\ g = 0 /\ b = 0
    THEN [c |-> RInt(0), m |-> RInt(0), y |-> RInt(0), k |-> RInt(0)]
    ELSE LET Key(rf, gf, bf, k) ==
                 [c |-> RDiv(RSub(RSub(RInt(1), rf), k), RSub(RInt(1), k)),
                  m |-> RDiv(RSub(RSub(RInt(1), gf), k), RSub(RInt(1), k)),
                  y |-> RDiv(RSub(RSub(RInt(1), bf), k), RSub(RInt(1), k)),
                  k |-> k]
             Floats(rf, gf, bf) ==
                 Key(rf, gf, bf, RSub(RInt(1), RMax(rf, RMax(gf, bf))))
         IN  Floats(Channel(r), Channel(g), Channel(b))

rgbToCMYK(r, g, b) ==
    IF r = 0 /\ g = 0 /\ b = 0
    THEN [c |-> RInt(0), m |-> RInt(0), y |-> RInt(0), k |-> RInt(1)]
    ELSE LET Key(rf, gf, bf, k) ==
                 [c |-> RDiv(RSub(RSub(RInt(1), rf), k), RSub(RInt(1), k)),
                  m |-> RDiv(RSub(RSub(RInt(1), gf), k), RSub(RInt(1), k)),
                  y |-> RDiv(RSub(RSub(RInt(1), bf), k), RSub(RInt(1), k)),
                  k |-> k]
             Floats(rf, gf, bf) ==
                 Key(rf, gf, bf, RSub(RInt(1), RMax(rf, RMax(gf, bf))))
         IN  Floats(Channel(r), Channel(g), Channel(b))

rgbToHWB(r, g, b) ==
    LET rf == Channel(r)
        gf == Channel(g)
        bf == Channel(b)
        w  == RMin(rf, RMin(gf, bf))
        bl == RSub(RInt(1), RMax(rf, RMax(gf, bf)))
    IN  [h |-> rgbToHSL(r, g, b).h, w |-> RMul(w, RInt(100)), b |-> RMul(bl, RInt(100))]

\* rgbToLAB, rgbToLCH, rgbToOklab and rgbToOklch go through math.Pow,
\* math.Cbrt, math.Sqrt and math.Atan2, which have no exact counterpart
\* here: each is the uninterpreted term "this function of (r, g, b)".
rgbToLAB(r, g, b) == [fn |-> "rgbToLAB", r |-> r, g |-> g, b |-> b]

rgbToLCH(r, g, b) == [fn |-> "rgbToLCH", of |-> rgbToLAB(r, g, b)]

rgbToOklab(r, g, b) == [fn |-> "rgbToOklab", r |-> r, g |-> g, b |-> b]

rgbToOklch(r, g, b) == [fn |-> "rgbToOklch", of |-> rgbToOklab(r, g, b)]

(***************************************************************************)
(* Colour helpers: reverse conversions (a space to RGB).                   *)
(***************************************************************************)
hslToRGB(h0, s, l) ==
    LET Shifted(rgb, m) ==
            <<clampInt(RMul(RAdd(rgb[1], m), RInt(255))),
              clampInt(RMul(RAdd(rgb[2], m), RInt(255))),
              clampInt(RMul(RAdd(rgb[3], m), RInt(255)))>>
        Sector(h, c, x, z) ==
            IF RLess(h, RInt(60)) THEN <<c, x, z>>
            ELSE IF RLess(h, RInt(120)) THEN <<x, c, z>>
            ELSE IF RLess(h, RInt(180)) THEN <<z, c, x>>
            ELSE IF RLess(h, RInt(240)) THEN <<z, x, c>>
            ELSE IF RLess(h, RInt(300)) THEN <<x, z, c>>
            ELSE <<c, z, x>>
        Chroma(h, c) ==
            Shifted(Sector(h, c,
                           RMul(c, RSub(RInt(1),
                                RAbs(RSub(MathMod(RDiv(h, RInt(60)), 2), RInt(1))))),
                           RInt(0)),
                    RSub(l, RDiv(c, RInt(2))))
        Wrapped(hm) ==
            Chroma(IF RLess(hm, RInt(0)) THEN RAdd(hm, RInt(360)) ELSE hm,
                   RMul(RSub(RInt(1), RAbs(RSub(RMul(RInt(2), l), RInt(1)))), s))
    IN  Wrapped(MathMod(h0, 360))

\* hwbToRGB that scales the pure hue but does not add the whiteness
hwbToRGB_WhitenessNotAdded(h, w, bl) ==
    LET Gray(g) == <<g, g, g>>
        Mixed(rgb, rest) ==
            <<clampInt(RMul(RMul(Channel(rgb[1]), rest), RInt(255))),
              clampInt(RMul(RMul(Channel(rgb[2]), rest), RInt(255))),
              clampInt(RMul(RMul(Channel(rgb[3]), rest), RInt(255)))>>
    IN  IF RLeq(RInt(1), RAdd(w, bl))
        THEN Gray(clampInt(RMul(RDiv(w, RAdd(w, bl)), RInt(255))))
        ELSE Mixed(hslToRGB(h, RInt(1), Rat(1, 2)), RSub(RSub(RInt(1), w), bl))

hwbToRGB(h, w, bl) ==
    LET Gray(g) == <<g, g, g>>
        Mixed(rgb, rest) ==
            <<clampInt(RMul(RAdd(RMul(Channel(rgb[1]), rest), w), RInt(255))),
              clampInt(RMul(RAdd(RMul(Channel(rgb[2]), rest), w), RInt(255))),
              clampInt(RMul(RAdd(RMul(Channel(rgb[3]), rest), w), RInt(255)))>>
    IN  IF RLeq(RInt(1), RAdd(w, bl))
        THEN Gray(clampInt(RMul(RDiv(w, RAdd(w, bl)), RInt(255))))
        ELSE Mixed(hslToRGB(h, RInt(1), Rat(1, 2)), RSub(RSub(RInt(1), w), bl))

\* labToRGB, lchToRGB, oklabToRGB and oklchToRGB go through math.Pow,
\* math.Cos and math.Sin and through constants of ten decimal places, which
\* have no exact counterpart here.  Their value is tabulated for the
\* arguments the inputs of this model produce: the float64 evaluation of
\* the function body, every channel at least 0.01 away from a rounding
\* boundary before clampInt.  Other arguments are outside the model.
KnownReconstructions ==
    {[fn |-> "labToRGB",   args |-> <<RInt(0), RInt(0), RInt(0)>>,
                           rgb  |-> <<0, 0, 0>>],
     [fn |-> "labToRGB",   args |-> <<RInt(50), RInt(0 - 20), RInt(30)>>,
                           rgb  |-> <<102, 127, 66>>],
     [fn |-> "labToRGB",   args |-> <<RInt(150), RInt(0), RInt(0)>>,
                           rgb  |-> <<255, 255, 255>>],
     [fn |-> "lchToRGB",   args |-> <<RInt(50), RInt(30), RInt(120)>>,
                           rgb  |-> <<109, 125, 74>>],
     [fn |-> "oklabToRGB", args |-> <<Rat(5, 10), Rat(1, 10), Rat(0 - 1, 10)>>,
                           rgb  |-> <<129, 69, 154>>],
     [fn |-> "oklabToRGB", args |-> <<RInt(0), RInt(0), RInt(0)>>,
                           rgb  |-> <<0, 0, 0>>],
     [fn |-> "oklchToRGB", args |-> <<Rat(6804, 10000), Rat(21, 100), Rat(3369, 100)>>,
                           rgb  |-> <<255, 87, 51>>],
     [fn |-> "oklchToRGB", args |-> <<Rat(5, 10), Rat(1, 10), RInt(200)>>,
                           rgb  |-> <<0, 116, 122>>]}

Reconstruction(fn, args) ==
    (CHOOSE e \in KnownReconstructions : e.fn = fn /\ e.args = args).rgb

labToRGB(L, A, B) == Reconstruction("labToRGB", <<L, A, B>>)

lchToRGB(L, C, H) == Reconstruction("lchToRGB", <<L, C, H>>)

oklabToRGB(L, A, B) == Reconstruction("oklabToRGB", <<L, A, B>>)

oklchToRGB(L, C, H) == Reconstruction("oklchToRGB", <<L, C, H>>)

(***************************************************************************)
(* toolAnalyzeColor, part 1: parsing.  Each branch yields the values of    *)
(* the locals (r, g, b, a, hasAlpha, parsed) when the if/else chain is     *)
(* left.                                                                   *)
(***************************************************************************)
Unparsed == [r |-> 0, g |-> 0, b |-> 0, a |-> 255, hasAlpha |-> FALSE, parsed |-> FALSE]

\* ParseHex whose case 4 forgets "hasAlpha = true"
ParseHex_ShortAlphaUnflagged(hexInput) ==
    LET n == Len(hexInput)
    IN  IF n = 3
        THEN LET v == SscanfHex(hexInput, 1, 1, 3)
             IN  [r |-> Scanned(v, 1, 0) * 17, g |-> Scanned(v, 2, 0) * 17,
                  b |-> Scanned(v, 3, 0) * 17, a |-> 255,
                  hasAlpha |-> FALSE, parsed |-> TRUE]
        ELSE IF n = 4
        THEN LET v == SscanfHex(hexInput, 1, 1, 4)
             IN  [r |-> Scanned(v, 1, 0) * 17, g |-> Scanned(v, 2, 0) * 17,
                  b |-> Scanned(v, 3, 0) * 17, a |-> Scanned(v, 4, 255) * 17,
                  hasAlpha |-> FALSE, parsed |-> TRUE]
        ELSE IF n = 6
        THEN LET v == SscanfHex(hexInput, 1, 2, 3)
             IN  [r |-> Scanned(v, 1, 0), g |-> Scanned(v, 2, 0),
                  b |-> Scanned(v, 3, 0), a |-> 255,
                  hasAlpha |-> FALSE, parsed |-> TRUE]
        ELSE IF n = 8
        THEN LET v == SscanfHex(hexInput, 1, 2, 4)
             IN  [r |-> Scanned(v, 1, 0), g |-> Scanned(v, 2, 0),
                  b |-> Scanned(v, 3, 0), a |-> Scanned(v, 4, 255),
                  hasAlpha |-> TRUE, parsed |-> TRUE]
        ELSE Unparsed

\* the switch on len(hexInput)
ParseHex(hexInput) ==
    LET n == Len(hexInput)
    IN  IF n = 3
        THEN LET v == SscanfHex(hexInput, 1, 1, 3)
             IN  [r |-> Scanned(v, 1, 0) * 17, g |-> Scanned(v, 2, 0) * 17,
                  b |-> Scanned(v, 3, 0) * 17, a |-> 255,
                  hasAlpha |-> FALSE, parsed |-> TRUE]
        ELSE IF n = 4
        THEN LET v == SscanfHex(hexInput, 1, 1, 4)
             IN  [r |-> Scanned(v, 1, 0) * 17, g |-> Scanned(v, 2, 0) * 17,
                  b |-> Scanned(v, 3, 0) * 17, a |-> Scanned(v, 4, 255) * 17,
                  hasAlpha |-> TRUE, parsed |-> TRUE]
        ELSE IF n = 6
        THEN LET v == SscanfHex(hexInput, 1, 2, 3)
             IN  [r |-> Scanned(v, 1, 0), g |-> Scanned(v, 2, 0),
                  b |-> Scanned(v, 3, 0), a |-> 255,
                  hasAlpha |-> FALSE, parsed |-> TRUE]
        ELSE IF n = 8
        THEN LET v == SscanfHex(hexInput, 1, 2, 4)
             IN  [r |-> Scanned(v, 1, 0), g |-> Scanned(v, 2, 0),
                  b |-> Scanned(v, 3, 0), a |-> Scanned(v, 4, 255),
                  hasAlpha |-> TRUE, parsed |-> TRUE]
        ELSE Unparsed

\* the branch for the prefix "rgba"
ParseRGBA(in) ==
    LET matches == FindAllString(in, 1, TRUE, FALSE, 4)
    IN  IF Len(matches) >= 4
        THEN [r |-> Atoi(matches[1]), g |-> Atoi(matches[2]), b |-> Atoi(matches[3]),
              a |-> AlphaFromToken(matches[4]), hasAlpha |-> TRUE, parsed |-> TRUE]
        ELSE Unparsed

\* ParseRGB that asks FindAllString for up to four matches
ParseRGB_LimitFour(in) ==
    LET matches == FindAllString(in, 1, FALSE, FALSE, 4)
    IN  IF Len(matches) = 3
        THEN [r |-> Atoi(matches[1]), g |-> Atoi(matches[2]), b |-> Atoi(matches[3]),
              a |-> 255, hasAlpha |-> FALSE, parsed |-> TRUE]
        ELSE Unparsed

\* the branch for the prefix "rgb"
ParseRGB(in) ==
    LET matches == FindAllString(in, 1, FALSE, FALSE, 3)
    IN  IF Len(matches) = 3
        THEN [r |-> Atoi(matches[1]), g |-> Atoi(matches[2]), b |-> Atoi(matches[3]),
              a |-> 255, hasAlpha |-> FALSE, parsed |-> TRUE]
        ELSE Unparsed

\* the tail shared by the hsl, hwb, lab, lch, oklch and oklab branches:
\* the reconstructed channels and the optional fourth token
Reconstructed(rgb, matches) ==
    [r |-> rgb[1], g |-> rgb[2], b |-> rgb[3],
     a |-> IF Len(matches) >= 4 THEN AlphaFromToken(matches[4]) ELSE 255,
     hasAlpha |-> Len(matches) >= 4, parsed |-> TRUE]

\* ParseHSL that accepts two tokens and leaves the lightness at zero
ParseHSL_TwoTokensEnough(in) ==
    LET matches == FindAllString(in, 1, TRUE, FALSE, 4)
    IN  IF Len(matches) >= 2
        THEN Reconstructed(hslToRGB(ParseFloat(matches[1]),
                                    RDiv(ParseFloat(matches[2]), RInt(100)),
                                    IF Len(matches) >= 3
                                    THEN RDiv(ParseFloat(matches[3]), RInt(100))
                                    ELSE RInt(0)), matches)
        ELSE Unparsed

\* the branch for the prefix "hsl"
ParseHSL(in) ==
    LET matches == FindAllString(in, 1, TRUE, FALSE, 4)
    IN  IF Len(matches) >= 3
        THEN Reconstructed(hslToRGB(ParseFloat(matches[1]),
                                    RDiv(ParseFloat(matches[2]), RInt(100)),
                                    RDiv(ParseFloat(matches[3]), RInt(100))), matches)
        ELSE Unparsed

ParseHWB(in) ==
    LET matches == FindAllString(in, 1, TRUE, FALSE, 4)
    IN  IF Len(matches) >= 3
        THEN Reconstructed(hwbToRGB(ParseFloat(matches[1]),
                                    RDiv(ParseFloat(matches[2]), RInt(100)),
                                    RDiv(ParseFloat(matches[3]), RInt(100))), matches)
        ELSE Unparsed

\* the branch for the prefix "lab"
ParseLAB(in) ==
    LET matches == FindAllString(in, 1, TRUE, TRUE, 4)
    IN  IF Len(matches) >= 3
        THEN Reconstructed(labToRGB(ParseFloat(matches[1]), ParseFloat(matches[2]),
                           ParseFloat(matches[3])), matches)
        ELSE Unparsed

\* the branch for the prefix "lch"
ParseLCH(in) ==
    LET matches == FindAllString(in, 1, TRUE, TRUE, 4)
    IN  IF Len(matches) >= 3
        THEN Reconstructed(lchToRGB(ParseFloat(matches[1]), ParseFloat(matches[2]),
                           ParseFloat(matches[3])), matches)
        ELSE Unparsed

\* the branch for the prefix "oklch"
ParseOklch(in) ==
    LET matches == FindAllString(in, 1, TRUE, TRUE, 4)
    IN  IF Len(matches) >= 3
        THEN Reconstructed(oklchToRGB(ParseFloat(matches[1]), ParseFloat(matches[2]),
                           ParseFloat(matches[3])), matches)
        ELSE Unparsed

\* the branch for the prefix "oklab"
ParseOklab(in) ==
    LET matches == FindAllString(in, 1, TRUE, TRUE, 4)
    IN  IF Len(matches) >= 3
        THEN Reconstructed(oklabToRGB(ParseFloat(matches[1]), ParseFloat(matches[2]),
                           ParseFloat(matches[3])), matches)
        ELSE Unparsed

\* ParseNamed without the spelling "grey"
ParseNamed_NoGrey(in) ==
    LET opaque(r, g, b) == [r |-> r, g |-> g, b |-> b, a |-> 255,
                            hasAlpha |-> FALSE, parsed |-> TRUE]
    IN  IF in = <<"w", "h", "i", "t", "e">> THEN opaque(255, 255, 255)
        ELSE IF in = <<"b", "l", "a", "c", "k">> THEN opaque(0, 0, 0)
        ELSE IF in = <<"r", "e", "d">> THEN opaque(255, 0, 0)
        ELSE IF in = <<"g", "r", "e", "e", "n">> THEN opaque(0, 128, 0)
        ELSE IF in = <<"b", "l", "u", "e">> THEN opaque(0, 0, 255)
        ELSE IF in = <<"y", "e", "l", "l", "o", "w">> THEN opaque(255, 255, 0)
        ELSE IF in = <<"c", "y", "a", "n">> THEN opaque(0, 255, 255)
        ELSE IF in = <<"m", "a", "g", "e", "n", "t", "a">> THEN opaque(255, 0, 255)
        ELSE IF in = <<"g", "r", "a", "y">> THEN opaque(128, 128, 128)
        ELSE IF in = <<"t", "r", "a", "n", "s", "p", "a", "r", "e", "n", "t">>
        THEN [r |-> 0, g |-> 0, b |-> 0, a |-> 0, hasAlpha |-> TRUE, parsed |-> TRUE]
        ELSE Unparsed

\* the named-colour switch
ParseNamed(in) ==
    LET opaque(r, g, b) == [r |-> r, g |-> g, b |-> b, a |-> 255,
                            hasAlpha |-> FALSE, parsed |-> TRUE]
    IN  IF in = <<"w", "h", "i", "t", "e">> THEN opaque(255, 255, 255)
        ELSE IF in = <<"b", "l", "a", "c", "k">> THEN opaque(0, 0, 0)
        ELSE IF in = <<"r", "e", "d">> THEN opaque(255, 0, 0)
        ELSE IF in = <<"g", "r", "e", "e", "n">> THEN opaque(0, 128, 0)
        ELSE IF in = <<"b", "l", "u", "e">> THEN opaque(0, 0, 255)
        ELSE IF in = <<"y", "e", "l", "l", "o", "w">> THEN opaque(255, 255, 0)
        ELSE IF in = <<"c", "y", "a", "n">> THEN opaque(0, 255, 255)
        ELSE IF in = <<"m", "a", "g", "e", "n", "t", "a">> THEN opaque(255, 0, 255)
        ELSE IF in \in {<<"g", "r", "a", "y">>, <<"g", "r", "e", "y">>} THEN opaque(128, 128, 128)
        ELSE IF in = <<"t", "r", "a", "n", "s", "p", "a", "r", "e", "n", "t">>
        THEN [r |-> 0, g |-> 0, b |-> 0, a |-> 0, hasAlpha |-> TRUE, parsed |-> TRUE]
        ELSE Unparsed

\* the whole if/else chain, on the trimmed and lower-cased input
ParseColor(in) ==
    LET hexInput == TrimPrefix(in, <<"#">>)
    IN  IF HasPrefix(in, <<"#">>) \/ (Len(hexInput) >= 3 /\ isHex(hexInput))
        THEN ParseHex(hexInput)
        ELSE IF HasPrefix(in, <<"r", "g", "b", "a">>) THEN ParseRGBA(in)
        ELSE IF HasPrefix(in, <<"r", "g", "b">>) THEN ParseRGB(in)
        ELSE IF HasPrefix(in, <<"h", "s", "l">>) THEN ParseHSL(in)
        ELSE IF HasPrefix(in, <<"h", "w", "b">>) THEN ParseHWB(in)
        ELSE IF HasPrefix(in, <<"l", "a", "b">>) THEN ParseLAB(in)
        ELSE IF HasPrefix(in, <<"l", "c", "h">>) THEN ParseLCH(in)
        ELSE IF HasPrefix(in, <<"o", "k", "l", "c", "h">>) THEN ParseOklch(in)
        ELSE IF HasPrefix(in, <<"o", "k", "l", "a", "b">>) THEN ParseOklab(in)
        ELSE ParseNamed(in)

(***************************************************************************)
(* toolAnalyzeColor, part 2: clamping, projections and the report.         *)
(***************************************************************************)
\* clamp without the upper limit
clamp_NoUpperLimit(x) == IF x < 0 THEN 0 ELSE x

\* the closure clamp
clamp(x) == IF x < 0 THEN 0 ELSE IF x > 255 THEN 255 ELSE x

\* the canonical colour: the locals after "r, g, b, a = clamp(r), ..."
Canonical(p) ==
    [r |-> clamp(p.r), g |-> clamp(p.g), b |-> clamp(p.b), a |-> clamp(p.a),
     hasAlpha |-> p.hasAlpha]

\* Ansi256 whose grayscale ramp forgets the offset of 8
Ansi256_RampNoOffset(r, g, b) ==
    IF r = g /\ g = b
    THEN IF r < 8 THEN 16
         ELSE IF r > 248 THEN 231
         ELSE 232 + ((r * 24) \div 247)
    ELSE 16 + (36 * (r \div 51)) + (6 * (g \div 51)) + (b \div 51)

\* the ANSI 256 approximation
Ansi256(r, g, b) ==
    IF r = g /\ g = b
    THEN IF r < 8 THEN 16
         ELSE IF r > 248 THEN 231
         ELSE 232 + (((r - 8) * 24) \div 247)
    ELSE 16 + (36 * (r \div 51)) + (6 * (g \div 51)) + (b \div 51)

\* Luminance whose green weight has two digits transposed (0.7512)
Luminance_GreenWeightTransposed(r, g, b) ==
    RAdd(RAdd(RDiv(RMul(Rat(2126, 10000), RInt(r)), RInt(255)),
              RDiv(RMul(Rat(7512, 10000), RInt(g)), RInt(255))),
         RDiv(RMul(Rat(722, 10000), RInt(b)), RInt(255)))

\* lum, contrastWhite, contrastBlack
Luminance(r, g, b) ==
    RAdd(RAdd(RDiv(RMul(Rat(2126, 10000), RInt(r)), RInt(255)),
              RDiv(RMul(Rat(7152, 10000), RInt(g)), RInt(255))),
         RDiv(RMul(Rat(722, 10000), RInt(b)), RInt(255)))

ContrastWhite(lum) == RDiv(RAdd(RInt(1), Rat(5, 100)), RAdd(lum, Rat(5, 100)))

ContrastBlack(lum) == RDiv(RAdd(lum, Rat(5, 100)), RAdd(RInt(0), Rat(5, 100)))

\* fmt.Sprintf with a floating-point verb: the text is not rendered, the
\* value is the format together with its arguments
Sprintf(format, args) == [format |-> format, args |-> args]

ErrorPrefix == <<"C", "o", "u", "l", "d", " ", "n", "o", "t", " ", "p", "a", "r", "s", "e", " ", "c", "o", "l", "o", "r", ":", " ">>

\* the formats map without the alpha entries
BaseFormats(c) ==
    LET pct(x) == RMul(x, RInt(100))
        Formats(hsl, hsv, hwb, cmyk, lab, lch, oklab, oklch) ==
        [hex       |-> ToUpper(<<"#">> \o FormatHex02(c.r) \o FormatHex02(c.g)
                               \o FormatHex02(c.b)),
         rgb       |-> [r |-> c.r, g |-> c.g, b |-> c.b],
         rgb_css   |-> <<"r", "g", "b", "(">> \o FormatInt(c.r) \o <<",", " ">>
                       \o FormatInt(c.g) \o <<",", " ">> \o FormatInt(c.b) \o <<")">>,
         hsl       |-> [h |-> round(hsl.h), s |-> round(pct(hsl.s)),
                        l |-> round(pct(hsl.l))],
         hsl_css   |-> Sprintf("hsl(%.0f, %.0f%%, %.0f%%)",
                               <<hsl.h, pct(hsl.s), pct(hsl.l)>>),
         hsv       |-> [h |-> round(hsl.h), s |-> round(pct(hsv.s)),
                        v |-> round(pct(hsv.v))],
         hwb       |-> [h |-> round(hwb.h), w |-> round(hwb.w), b |-> round(hwb.b)],
         hwb_css   |-> Sprintf("hwb(%.0f %.0f%% %.0f%%)", <<hwb.h, hwb.w, hwb.b>>),
         cmyk      |-> [c |-> round(pct(cmyk.c)), m |-> round(pct(cmyk.m)),
                        y |-> round(pct(cmyk.y)), k |-> round(pct(cmyk.k))],
         cmyk_css  |-> Sprintf("cmyk(%.0f%%, %.0f%%, %.0f%%, %.0f%%)",
                               <<pct(cmyk.c), pct(cmyk.m), pct(cmyk.y), pct(cmyk.k)>>),
         lab       |-> [fn |-> "roundDig", digits |-> <<2, 2, 2>>, of |-> lab],
         lab_css   |-> Sprintf("lab(%.2f %.2f %.2f)", <<lab>>),
         lch       |-> [fn |-> "roundDig", digits |-> <<2, 2, 2>>, of |-> lch],
         lch_css   |-> Sprintf("lch(%.2f %.2f %.2f)", <<lch>>),
         oklab     |-> [fn |-> "roundDig", digits |-> <<4, 4, 4>>, of |-> oklab],
         oklab_css |-> Sprintf("oklab(%.4f %.4f %.4f)", <<oklab>>),
         oklch     |-> [fn |-> "roundDig", digits |-> <<4, 4, 2>>, of |-> oklch],
         oklch_css |-> Sprintf("oklch(%.4f %.4f %.2f)", <<oklch>>),
         ansi256   |-> Ansi256(c.r, c.g, c.b)]
    IN  Formats(rgbToHSL(c.r, c.g, c.b), rgbToHSV(c.r, c.g, c.b),
                rgbToHWB(c.r, c.g, c.b), rgbToCMYK(c.r, c.g, c.b),
                rgbToLAB(c.r, c.g, c.b), rgbToLCH(c.r, c.g, c.b),
                rgbToOklab(c.r, c.g, c.b), rgbToOklch(c.r, c.g, c.b))

\* the entries added or replaced when hasAlpha is set
AlphaFormats(c) ==
    LET pct(x) == RMul(x, RInt(100))
        Formats(alphaFloat, hsl, hwb) ==
        [alpha         |-> roundDig(alphaFloat, 3),
         alpha_percent |-> round(pct(alphaFloat)),
         hexa          |-> ToUpper(<<"#">> \o FormatHex02(c.r) \o FormatHex02(c.g)
                                   \o FormatHex02(c.b) \o FormatHex02(c.a)),
         rgba          |-> [r |-> c.r, g |-> c.g, b |-> c.b,
                            a |-> roundDig(alphaFloat, 3)],
         rgba_css      |-> Sprintf("rgba(%d, %d, %d, %.3f)",
                                   <<c.r, c.g, c.b, alphaFloat>>),
         hsla_css      |-> Sprintf("hsla(%.0f, %.0f%%, %.0f%%, %.3f)",
                                   <<hsl.h, pct(hsl.s), pct(hsl.l), alphaFloat>>),
         hwb_css       |-> Sprintf("hwb(%.0f %.0f%% %.0f%% / %.3f)",
                                   <<hwb.h, hwb.w, hwb.b, alphaFloat>>),
         lab_css       |-> Sprintf("lab(%.2f %.2f %.2f / %.3f)",
                                   <<rgbToLAB(c.r, c.g, c.b), alphaFloat>>),
         lch_css       |-> Sprintf("lch(%.2f %.2f %.2f / %.3f)",
                                   <<rgbToLCH(c.r, c.g, c.b), alphaFloat>>),
         oklab_css     |-> Sprintf("oklab(%.4f %.4f %.4f / %.3f)",
                                   <<rgbToOklab(c.r, c.g, c.b), alphaFloat>>),
         oklch_css     |-> Sprintf("oklch(%.4f %.4f %.2f / %.3f)",
                                   <<rgbToOklch(c.r, c.g, c.b), alphaFloat>>)]
    IN  Formats(Rat(c.a, 255), rgbToHSL(c.r, c.g, c.b), rgbToHWB(c.r, c.g, c.b))

\* Accessibility that compares the two ratios with 7.0, the AAA threshold
Accessibility_AAAThreshold(c) ==
    LET Block(lum, contrastWhite, contrastBlack) ==
        [luminance              |-> roundDig(lum, 4),
         contrast_white         |-> roundDig(contrastWhite, 2),
         contrast_black         |-> roundDig(contrastBlack, 2),
         wcag_aa_compliant      |-> RLeq(RInt(7), contrastWhite)
                                    \/ RLeq(RInt(7), contrastBlack),
         recommended_text_color |-> IF RLess(contrastWhite, contrastBlack)
                                    THEN "black" ELSE "white"]
        Contrasts(lum) == Block(lum, ContrastWhite(lum), ContrastBlack(lum))
    IN  Contrasts(Luminance(c.r, c.g, c.b))

\* Accessibility whose closure returns the two colour names the other way
\* round
Accessibility_TextColorSwapped(c) ==
    LET Block(lum, contrastWhite, contrastBlack) ==
        [luminance              |-> roundDig(lum, 4),
         contrast_white         |-> roundDig(contrastWhite, 2),
         contrast_black         |-> roundDig(contrastBlack, 2),
         wcag_aa_compliant      |-> RLeq(Rat(45, 10), contrastWhite)
                                    \/ RLeq(Rat(45, 10), contrastBlack),
         recommended_text_color |-> IF RLess(contrastWhite, contrastBlack)
                                    THEN "white" ELSE "black"]
        Contrasts(lum) == Block(lum, ContrastWhite(lum), ContrastBlack(lum))
    IN  Contrasts(Luminance(c.r, c.g, c.b))

\* the accessibility block
Accessibility(c) ==
    LET Block(lum, contrastWhite, contrastBlack) ==
        [luminance              |-> roundDig(lum, 4),
         contrast_white         |-> roundDig(contrastWhite, 2),
         contrast_black         |-> roundDig(contrastBlack, 2),
         wcag_aa_compliant      |-> RLeq(Rat(45, 10), contrastWhite)
                                    \/ RLeq(Rat(45, 10), contrastBlack),
         recommended_text_color |-> IF RLess(contrastWhite, contrastBlack)
                                    THEN "black" ELSE "white"]
        Contrasts(lum) == Block(lum, ContrastWhite(lum), ContrastBlack(lum))
    IN  Contrasts(Luminance(c.r, c.g, c.b))

\* Report that adds the alpha entries whatever hasAlpha is
Report_AlphaAlways(in, c) ==
    [original_input |-> in,
     has_alpha      |-> c.hasAlpha,
     formats        |-> AlphaFormats(c) @@ BaseFormats(c),
     accessibility  |-> Accessibility(c)]

\* the map returned for a parsed colour
Report(in, c) ==
    [original_input |-> in,
     has_alpha      |-> c.hasAlpha,
     formats        |-> IF c.hasAlpha THEN AlphaFormats(c) @@ BaseFormats(c)
                        ELSE BaseFormats(c),
     accessibility  |-> Accessibility(c)]

\* toolAnalyzeColor that reports the input as supplied, not as normalised
toolAnalyzeColor_EchoRaw(raw) ==
    LET Clamped(in, c) == [color |-> c, report |-> Report(in, c), err |-> <<>>]
        Parsed(in, p) ==
            IF ~p.parsed
            THEN [color |-> Nil, report |-> Nil, err |-> ErrorPrefix \o raw]
            ELSE Clamped(in, Canonical(p))
        Normalised(in) == Parsed(in, ParseColor(in))
    IN  Normalised(ToLower(TrimSpace(raw)))

\* toolAnalyzeColor that sets the error but goes on to build the report
toolAnalyzeColor_NoEarlyReturn(raw) ==
    LET Clamped(in, p, c) ==
            [color  |-> c,
             report |-> Report(in, c),
             err    |-> IF ~p.parsed THEN ErrorPrefix \o in ELSE <<>>]
        Parsed(in, p) == Clamped(in, p, Canonical(p))
        Normalised(in) == Parsed(in, ParseColor(in))
    IN  Normalised(ToLower(TrimSpace(raw)))

\* toolAnalyzeColor: the canonical colour of the call (Nil when the input
\* did not parse) and the two values returned
toolAnalyzeColor(raw) ==
    LET Clamped(in, c) == [color |-> c, report |-> Report(in, c), err |-> <<>>]
        Parsed(in, p) ==
            IF ~p.parsed
            THEN [color |-> Nil, report |-> Nil, err |-> ErrorPrefix \o in]
            ELSE Clamped(in, Canonical(p))
        Normalised(in) == Parsed(in, ParseColor(in))
    IN  Normalised(ToLower(TrimSpace(raw)))

(***************************************************************************)
(* Inputs: the strings a caller hands to toolAnalyzeColor.                 *)
(***************************************************************************)
\* characters of the generated hex-family strings: two hexadecimal digits,
\* one of them an upper-case letter, and one character that is not
\* hexadecimal
HexAlphabet == {"0", "F", "g"}

\* every string over HexAlphabet of at most HexPeriod characters, and the
\* longer ones, up to MaxHexLen characters, that repeat their first
\* HexPeriod characters
HexStrings ==
    {[i \in 1..n |-> p[((i - 1) % HexPeriod) + 1]] :
        p \in [1..HexPeriod -> HexAlphabet], n \in 0..MaxHexLen}

HexInputs == HexStrings \cup {<<"#">> \o h : h \in HexStrings}

\* integer channel tokens of the generated rgb(...) inputs
ChannelTokens == {0, 4, 8, 51, 128, 248, 250} \cup (255..MaxChannelToken)

Call3(name, t1, t2, t3) ==
    name \o <<"(">> \o t1 \o <<",", " ">> \o t2 \o <<",", " ">> \o t3 \o <<")">>

Call4(name, t1, t2, t3, t4) ==
    name \o <<"(">> \o t1 \o <<",", " ">> \o t2 \o <<",", " ">> \o t3
         \o <<",", " ">> \o t4 \o <<")">>

RgbInputs ==
    {Call3(<<"r", "g", "b">>, FormatInt(r), FormatInt(g), FormatInt(b)) :
        r \in ChannelTokens, g \in ChannelTokens, b \in ChannelTokens}

\* fourth tokens of the generated inputs that carry alpha
AlphaTokens ==
    {<<"0">>,
     <<"0", ".", "5">>,
     <<"1">>,
     <<"0", ".", "2">>,
     <<"0", ".", "9", "9", "9">>,
     <<"1", ".", "5">>,
     <<"1", "2", "8">>,
     <<"2", "5", "5">>,
     <<"3", "0", "0">>,
     <<".", "5">>,
     <<"1", ".", "2", ".", "3">>}

RgbaInputs ==
    {Call4(<<"r", "g", "b", "a">>, FormatInt(r), FormatInt(g), FormatInt(b), t) :
        r \in {0, 255}, g \in {0, 300}, b \in {0, 128}, t \in AlphaTokens}

HueTokens == {0, 30, 60, 90, 120, 180, 240, 300, 359, 360, 480}

PercentTokens == {0, 25, 50, 100}

Percent(n) == FormatInt(n) \o <<"%">>

HslInputs ==
    {Call3(<<"h", "s", "l">>, FormatInt(h), Percent(sat), Percent(lit)) :
        h \in HueTokens, sat \in PercentTokens, lit \in PercentTokens}
    \cup
    {Call4(<<"h", "s", "l", "a">>, FormatInt(h), Percent(100), Percent(50), t) :
        h \in {0, 240}, t \in AlphaTokens}

HwbInputs ==
    {Call3(<<"h", "w", "b">>, FormatInt(h), Percent(w), Percent(bl)) :
        h \in HueTokens, w \in {0, 20, 60}, bl \in {0, 30, 60}}
    \cup
    {Call4(<<"h", "w", "b">>, FormatInt(h), Percent(20), Percent(30), t) :
        h \in {0, 240}, t \in AlphaTokens}

NamedInputs ==
    {<<"w", "h", "i", "t", "e">>,
     <<"b", "l", "a", "c", "k">>,
     <<"r", "e", "d">>,
     <<"g", "r", "e", "e", "n">>,
     <<"b", "l", "u", "e">>,
     <<"y", "e", "l", "l", "o", "w">>,
     <<"c", "y", "a", "n">>,
     <<"m", "a", "g", "e", "n", "t", "a">>,
     <<"g", "r", "a", "y">>,
     <<"g", "r", "e", "y">>,
     <<"t", "r", "a", "n", "s", "p", "a", "r", "e", "n", "t">>}

OtherInputs ==
    {<<"#", "F", "F", "5", "7", "3", "3">>,
     <<"#", "f", "f", "5", "7", "3", "3">>,
     <<"#", "0", "F", "0", "0", "F", "0">>,
     <<"#", "7", "9", "5", "8", "9", "F", "9", "9">>,
     <<" ", "#", "A", "b", "C", "d", "E", "f", " ">>,
     <<"#", "a", "b", "c">>,
     <<"a", "b", "c">>,
     <<"#", "1", "a", "2", "B">>,
     <<"1", "a", "2", "b", "3", "c">>,
     <<"#", "-", "f", "-", "f", "-", "f">>,
     <<"#", " ", "f", "f">>,
     <<"#", "1", "2", "3", "4", "5">>,
     <<"n", "o", "t", "a", "c", "o", "l", "o", "r">>,
     <<" ", "N", "o", "t", "A", "C", "o", "l", "o", "r", " ">>,
     <<>>,
     <<"x", "y", "z">>,
     <<"#">>,
     <<"r", "g", "b", "(", "1", ",", "2", ")">>,
     <<"r", "g", "b", "(", "1", ",", "2", ",", "3", ",", "0", ".", "5", ")">>,
     <<"R", "G", "B", "(", "2", "5", "5", ",", " ", "8", "7", ",", " ", "5", "1", ")">>,
     <<"r", "g", "b", "a", "(", "0", ",", "0", ",", "0", ",", "0", ".", "5", ")">>,
     <<"r", "g", "b", "a", "(", "0", ",", "0", ",", "0", ",", "1", "2", "8", ")">>,
     <<"r", "g", "b", "a", "(", "1", ".", "5", ",", "2", ",", "3", ",", "1", ")">>,
     <<"r", "g", "b", "a", "(", "1", ",", "2", ",", "3", ")">>,
     <<"W", "h", "i", "t", "e">>,
     <<" ", "t", "r", "a", "n", "s", "p", "a", "r", "e", "n", "t", " ">>,
     <<"g", "r", "e", "y", " ">>,
     <<"o", "k", "l", "c", "h", "(", "0", ".", "6", "8", "0", "4", " ", "0", ".", "2", "1", "0", "0", " ", "3", "3", ".", "6", "9", ")">>,
     <<"l", "a", "b", "(", "5", "0", " ", "-", "2", "0", " ", "3", "0", ")">>,
     <<"l", "a", "b", "(", "5", "0", " ", "-", "2", "0", " ", "3", "0", " ", "/", " ", "0", ".", "5", ")">>,
     <<"l", "a", "b", "(", "5", "0", " ", "2", "0", ")">>,
     <<"l", "a", "b", "(", "0", " ", "0", " ", "0", ")">>,
     <<"l", "a", "b", "(", "1", "5", "0", " ", "0", " ", "0", ")">>,
     <<"o", "k", "l", "a", "b", "(", "0", " ", "0", " ", "0", ")">>,
     <<"o", "k", "l", "c", "h", "(", "0", ".", "5", " ", "0", ".", "1", " ", "2", "0", "0", " ", "/", " ", "0", ".", "2", ")">>,
     <<"l", "c", "h", "(", "5", "0", " ", "3", "0", " ", "1", "2", "0", ")">>,
     <<"l", "c", "h", "(", "5", "0", " ", "3", "0", " ", "1", "2", "0", " ", "/", " ", "-", "0", ".", "5", ")">>,
     <<"o", "k", "l", "a", "b", "(", "0", ".", "5", " ", "0", ".", "1", " ", "-", "0", ".", "1", ")">>,
     <<"o", "k", "l", "a", "b", "(", "0", ".", "5", " ", "0", ".", "1", " ", "-", "0", ".", "1", " ", "/", " ", "2", "0", "0", ")">>,
     <<"o", "k", "l", "c", "h", "(", "0", ".", "5", ")">>,
     <<"h", "s", "l", "(", "-", "1", "2", "0", ",", " ", "1", "0", "0", "%", ",", " ", "5", "0", "%", ")">>,
     <<"h", "s", "l", "(", "1", "2", "0", ".", "5", ",", " ", "3", "3", ".", "3", "%", ",", " ", "5", "0", "%", ")">>,
     <<"h", "s", "l", "(", "1", "2", "0", ",", " ", "5", "0", "%", ")">>,
     <<"h", "w", "b", "(", "0", " ", "6", "0", "%", " ", "6", "0", "%", ")">>,
     <<"h", "w", "b", "(", "3", "0", " ", "2", "0", "%", ")">>,
     <<"h", "s", "l", "(", ")">>,
     <<"h", "s", "l", "a", "(", "1", "2", "0", ")">>,
     <<"r", "g", "b", "a", "(", "1", ",", "2", ")">>,
     <<"r", "g", "b", "(", "1", ".", "5", ",", " ", "2", ")">>,
     <<"l", "c", "h", "(", "5", "0", " ", "3", "0", ")">>,
     <<"o", "k", "l", "a", "b", "(", "0", ".", "5", " ", "-", "0", ".", "1", ")">>,
     <<"L", "A", "B", "(", "-", "5", ")">>,
     <<"r", "g", "b", "(", "1", "0", " ", "2", "0", " ", "3", "0", " ", "/", " ", "0", ".", "5", ")">>,
     <<"r", "g", "b", "(", "1", ",", "2", ",", "3", ",", "4", ",", "5", ",", "6", ")">>,
     <<"r", "g", "b", "(", "2", "5", "5", ",", " ", "0", ",", " ", "1", ")">>,
     <<"r", "g", "b", "(", "2", "5", "5", ",", " ", "0", ",", " ", "2", ")">>,
     <<"r", "g", "b", "(", "2", "5", "5", ",", " ", "0", ",", " ", "3", ")">>}

Inputs == HexInputs \cup RgbInputs \cup RgbaInputs \cup HslInputs \cup HwbInputs
          \cup NamedInputs \cup OtherInputs

(***************************************************************************)
(* The state machine: a caller invokes toolAnalyzeColor on some input and  *)
(* takes the two values it returns.                                        *)
(***************************************************************************)
Init ==
    /\ pc = "idle"
    /\ input = <<>>
    /\ color = Nil
    /\ report = Nil
    /\ err = <<>>

\* one call of toolAnalyzeColor(raw), from entry to return
Analyze ==
    /\ pc = "idle"
    /\ \E raw \in Inputs :
         \E out \in {toolAnalyzeColor(raw)} :
            /\ input' = raw
            /\ color' = out.color
            /\ report' = out.report
            /\ err' = out.err
    /\ pc' = "done"

\* the caller has consumed the result; nothing of the call is kept
Return ==
    /\ pc = "done"
    /\ pc' = "idle"
    /\ input' = <<>>
    /\ color' = Nil
    /\ report' = Nil
    /\ err' = <<>>

Next == Analyze \/ Return

Spec == Init /\ [][Next]_vars

(***************************************************************************)
(* Properties.                                                             *)
(***************************************************************************)
Normalized(raw) == ToLower(TrimSpace(raw))

Returned == pc = "done"

Succeeded == pc = "done" /\ report # Nil

FunctionalPrefixes ==
    {<<"r", "g", "b">>, <<"h", "s", "l">>, <<"h", "w", "b">>, <<"l", "a", "b">>, <<"l", "c", "h">>, <<"o", "k", "l", "a", "b">>, <<"o", "k", "l", "c", "h">>}

NamedColours == NamedInputs

AllHexDigits(s) == \A i \in 1..Len(s) : IsHexDigit(s[i])

\* the input reaches the hex family with a length the family reads
HexShaped(n) ==
    LET h == TrimPrefix(n, <<"#">>)
    IN  Len(h) \in {3, 4, 6, 8} /\ (HasPrefix(n, <<"#">>) \/ AllHexDigits(h))

\* the normalised input matches no grammar family and no named colour
MatchesNothing(n) ==
    /\ ~HexShaped(n)
    /\ \A p \in FunctionalPrefixes : ~HasPrefix(n, p)
    /\ n \notin NamedColours

UnconditionalFields ==
    {"hex", "rgb", "rgb_css", "hsl", "hsl_css", "hsv", "hwb", "hwb_css", "cmyk",
     "cmyk_css", "lab", "lab_css", "lch", "lch_css", "oklab", "oklab_css",
     "oklch", "oklch_css", "ansi256"}

AccessibilityFields ==
    {"luminance", "contrast_white", "contrast_black", "wcag_aa_compliant",
     "recommended_text_color"}

\* C2: no partial success.  A call returns either a report holding every
\* unconditional field and the accessibility block, with an empty error, or
\* no report with a non-empty error; never both, never a report short of a
\* field.
C2_NoPartialSuccess ==
    Returned =>
        \/ /\ report # Nil
           /\ err = <<>>
           /\ UnconditionalFields \subseteq DOMAIN report.formats
           /\ DOMAIN report.accessibility = AccessibilityFields
           /\ \A f \in {"luminance", "contrast_white", "contrast_black"} :
                 Finite(report.accessibility[f])
        \/ /\ report = Nil
           /\ err # <<>>

C2_Witness ==
    /\ Returned
    /\ input = <<"r", "g", "b", "(", "1", ",", "2", ")">>
    /\ report = Nil
    /\ err # <<>>

\* C3: in the canonical colour of every input that parses, r, g, b and a
\* are integers in 0..255.
C3_ChannelsInRange ==
    (Returned /\ color # Nil)
        => /\ color.r \in 0..255
           /\ color.g \in 0..255
           /\ color.b \in 0..255
           /\ color.a \in 0..255

C3_Witness ==
    /\ Returned
    /\ input = <<"r", "g", "b", "a", "(", "2", "5", "5", ",", " ", "3", "0", "0", ",", " ", "1", "2", "8", ",", " ", "3", "0", "0", ")">>
    /\ color # Nil
    /\ color.g = 255
    /\ color.a = 255

AlphaPrefixes ==
    {<<"r", "g", "b", "a">>, <<"h", "s", "l">>, <<"h", "w", "b">>, <<"l", "a", "b">>, <<"l", "c", "h">>, <<"o", "k", "l", "a", "b">>, <<"o", "k", "l", "c", "h">>}

\* the parse paths that set hasAlpha: 4- and 8-digit hex, a functional
\* notation with a fourth token, and 'transparent'
AlphaPath(n) ==
    \/ HexShaped(n) /\ Len(TrimPrefix(n, <<"#">>)) \in {4, 8}
    \/ /\ ~HexShaped(n)
       /\ \E p \in AlphaPrefixes : HasPrefix(n, p)
       /\ Len(FindAllString(n, 1, TRUE, TRUE, 4)) >= 4
    \/ n = <<"t", "r", "a", "n", "s", "p", "a", "r", "e", "n", "t">>

\* C4: in every canonical colour hasAlpha = false implies a = 255, and the
\* alpha channel differs from 255 only on the parse paths that set hasAlpha.
C4_OpaqueWithoutAlpha ==
    (Returned /\ color # Nil)
        => /\ ~color.hasAlpha => color.a = 255
           /\ color.a # 255 => color.hasAlpha /\ AlphaPath(Normalized(input))

C4_Witness ==
    /\ Returned
    /\ input = <<"r", "g", "b", "(", "1", ",", "2", ",", "3", ",", "0", ".", "5", ")">>
    /\ color # Nil
    /\ ~color.hasAlpha
    /\ color.a = 255

AlphaFields == {"alpha", "alpha_percent", "hexa", "rgba", "rgba_css", "hsla_css"}

\* C5: the alpha fields are in the report exactly when hasAlpha is set;
\* '#79589F99' yields hasAlpha, a = 153 and the alpha fields, '#FF5733'
\* yields no alpha and none of them.
C5_AlphaFieldsIffHasAlpha ==
    Succeeded
        => /\ color.hasAlpha => AlphaFields \subseteq DOMAIN report.formats
           /\ ~color.hasAlpha => AlphaFields \cap DOMAIN report.formats = {}
           /\ report.has_alpha = color.hasAlpha
           /\ input = <<"#", "7", "9", "5", "8", "9", "F", "9", "9">> => color.hasAlpha /\ color.a = 153
           /\ input = <<"#", "F", "F", "5", "7", "3", "3">> => ~color.hasAlpha

C5_Witness ==
    /\ Succeeded
    /\ input = <<"#", "7", "9", "5", "8", "9", "F", "9", "9">>
    /\ color.a = 153
    /\ report.formats.hexa = <<"#", "7", "9", "5", "8", "9", "F", "9", "9">>
    /\ {"rgba_css", "hsla_css"} \subseteq DOMAIN report.formats

\* a '#' followed by six hexadecimal digits of either case
ValidHex6(x) == Len(x) = 7 /\ x[1] = "#" /\ AllHexDigits(Tail(x))

\* C6: a valid 6-digit hex colour comes back, upper-cased, as the 'hex'
\* field of its report.
C6_HexRoundTrip ==
    (Returned /\ ValidHex6(input))
        => /\ report # Nil
           /\ report.formats.hex = ToUpper(input)

C6_Witness ==
    /\ Succeeded
    /\ input = <<"#", "0", "F", "0", "0", "F", "0">>
    /\ color.r = 15
    /\ report.formats.hex = <<"#", "0", "F", "0", "0", "F", "0">>

\* C7 as stated: 'rgba(0,0,0,0.5)' and 'rgba(0,0,0,128)' both yield the
\* canonical alpha 128.
C7_AlphaFractionOrLiteral ==
    /\ (Returned /\ input = <<"r", "g", "b", "a", "(", "0", ",", "0", ",", "0", ",", "0", ".", "5", ")">>) => (color # Nil /\ color.a = 128)
    /\ (Returned /\ input = <<"r", "g", "b", "a", "(", "0", ",", "0", ",", "0", ",", "1", "2", "8", ")">>) => (color # Nil /\ color.a = 128)

\* C8: every keyword of the named-colour table parses; 'transparent' is
\* (0,0,0,0) with hasAlpha, every other keyword is opaque without hasAlpha,
\* and 'gray' and 'grey' are the same colour.
C8_NamedColours ==
    (Returned /\ input \in NamedColours)
        => /\ color # Nil
           /\ input = <<"t", "r", "a", "n", "s", "p", "a", "r", "e", "n", "t">>
                => color = [r |-> 0, g |-> 0, b |-> 0, a |-> 0, hasAlpha |-> TRUE]
           /\ input # <<"t", "r", "a", "n", "s", "p", "a", "r", "e", "n", "t">> => ~color.hasAlpha /\ color.a = 255
           /\ input \in {<<"g", "r", "a", "y">>, <<"g", "r", "e", "y">>}
                => color = [r |-> 128, g |-> 128, b |-> 128, a |-> 255,
                            hasAlpha |-> FALSE]

C8_Witness ==
    /\ Returned
    /\ input = <<"g", "r", "e", "y">>
    /\ color # Nil
    /\ color.r = 128

InUnitInterval(x) == RLeq(RInt(0), x) /\ RLeq(x, RInt(1))

\* C9: rgbToCMYK(0,0,0) is exactly (0,0,0,1); for every other triple the
\* divisor 1-k is strictly positive and c, m, y, k lie in [0,1].
C9_CMYKWellDefined ==
    (Returned /\ color # Nil)
        => LET cmyk == rgbToCMYK(color.r, color.g, color.b)
           IN  /\ (color.r = 0 /\ color.g = 0 /\ color.b = 0)
                    => cmyk = [c |-> RInt(0), m |-> RInt(0), y |-> RInt(0),
                               k |-> RInt(1)]
               /\ ~(color.r = 0 /\ color.g = 0 /\ color.b = 0)
                    => RLess(RInt(0), RSub(RInt(1), cmyk.k))
               /\ \A f \in {"c", "m", "y", "k"} : InUnitInterval(cmyk[f])

C9_Witness ==
    /\ Succeeded
    /\ color.r = 0 /\ color.g = 0 /\ color.b = 0
    /\ report.formats.cmyk = [c |-> 0, m |-> 0, y |-> 0, k |-> 100]

Achromatic == color.r = color.g /\ color.g = color.b

CubeIndex == 16 + 36 * (color.r \div 51) + 6 * (color.g \div 51) + (color.b \div 51)

\* C10 as stated: the index lies in 16..255; an achromatic colour maps to
\* 16 for pure black, 231 for pure white and otherwise into 232..255; any
\* other colour maps to the colour-cube index, which lies in 16..231.
C10_AnsiGrayOnlyBlackWhiteLeaveRamp ==
    Succeeded
        => /\ report.formats.ansi256 \in 16..255
           /\ Achromatic
                => /\ color.r = 0 => report.formats.ansi256 = 16
                   /\ color.r = 255 => report.formats.ansi256 = 231
                   /\ color.r \notin {0, 255} => report.formats.ansi256 \in 232..255
           /\ ~Achromatic
                => /\ report.formats.ansi256 = CubeIndex
                   /\ report.formats.ansi256 \in 16..231

\* C10 as amended: the index lies in 16..255; an achromatic colour maps to
\* 16 when r < 8, to 231 when r > 248 and otherwise into 232..255; any
\* other colour maps to the colour-cube index, which lies in 16..231.
C10_AnsiGrayByThreshold ==
    Succeeded
        => /\ report.formats.ansi256 \in 16..255
           /\ Achromatic
                => /\ color.r < 8 => report.formats.ansi256 = 16
                   /\ color.r > 248 => report.formats.ansi256 = 231
                   /\ color.r \in 8..248 => report.formats.ansi256 \in 232..255
           /\ ~Achromatic
                => /\ report.formats.ansi256 = CubeIndex
                   /\ report.formats.ansi256 \in 16..231

C10_Witness ==
    /\ Succeeded
    /\ input = <<"r", "g", "b", "(", "4", ",", " ", "4", ",", " ", "4", ")">>
    /\ Achromatic
    /\ color.r = 4
    /\ report.formats.ansi256 = 16

(***************************************************************************)
(* C11: luminance and contrast.                                            *)
(***************************************************************************)
Between(lo, x, hi) == RLeq(RInt(lo), x) /\ RLeq(x, RInt(hi))

Lum == Luminance(color.r, color.g, color.b)

IsWhite == color.r = 255 /\ color.g = 255 /\ color.b = 255

IsBlack == color.r = 0 /\ color.g = 0 /\ color.b = 0

\* C11: for every canonical colour the luminance lies in [0, 1] and both
\* contrast ratios lie in [1, 21], as computed and as reported; white has
\* luminance exactly 1 and contrast 21 against black, black has luminance
\* exactly 0 and contrast 21 against white.
C11_LuminanceAndContrastExtremes ==
    Succeeded =>
        /\ Between(0, Lum, 1)
        /\ Between(1, ContrastWhite(Lum), 21)
        /\ Between(1, ContrastBlack(Lum), 21)
        /\ report.accessibility.luminance = roundDig(Lum, 4)
        /\ Between(0, report.accessibility.luminance, 1)
        /\ Between(1, report.accessibility.contrast_white, 21)
        /\ Between(1, report.accessibility.contrast_black, 21)
        /\ IsWhite => /\ Lum = RInt(1)
                      /\ ContrastBlack(Lum) = RInt(21)
                      /\ report.accessibility.luminance = RInt(1)
                      /\ report.accessibility.contrast_black = RInt(21)
        /\ IsBlack => /\ Lum = RInt(0)
                      /\ ContrastWhite(Lum) = RInt(21)
                      /\ report.accessibility.luminance = RInt(0)
                      /\ report.accessibility.contrast_white = RInt(21)

C11_Witness ==
    /\ Succeeded
    /\ input = <<"w", "h", "i", "t", "e">>
    /\ IsWhite
    /\ report.accessibility.luminance = RInt(1)
    /\ report.accessibility.contrast_black = RInt(21)

(***************************************************************************)
(* The conversion helpers called on their own: a caller converts an RGB    *)
(* triple to a colour space and back.                                      *)
(***************************************************************************)
ChannelSamples ==
    {k * ChannelStep : k \in 0..(255 \div ChannelStep)} \cup {1, 254, 255}

\* hslToRGB(rgbToHSL(r, g, b))
HSLRoundTrip(r, g, b) ==
    LET Back(hsl) == hslToRGB(hsl.h, hsl.s, hsl.l)
    IN  Back(rgbToHSL(r, g, b))

\* hwbToRGB(rgbToHWB(r, g, b)), whiteness and blackness taken from percent
\* to fractions; gray tells whether hwbToRGB took its gray branch
HWBRoundTrip(r, g, b) ==
    LET Back(h, w, bl) == [rgb  |-> hwbToRGB(h, w, bl),
                           gray |-> RLeq(RInt(1), RAdd(w, bl))]
        Fractions(hwb) == Back(hwb.h, RDiv(hwb.w, RInt(100)), RDiv(hwb.b, RInt(100)))
    IN  Fractions(rgbToHWB(r, g, b))

RoundTrip ==
    /\ pc = "idle"
    /\ \E r \in ChannelSamples, g \in ChannelSamples, b \in ChannelSamples :
          /\ color' = [r |-> r, g |-> g, b |-> b, a |-> 255, hasAlpha |-> FALSE]
          /\ report' = [hsl |-> HSLRoundTrip(r, g, b), hwb |-> HWBRoundTrip(r, g, b)]
    /\ pc' = "converted"
    /\ UNCHANGED <<input, err>>

Discard ==
    /\ pc = "converted"
    /\ pc' = "idle"
    /\ color' = Nil
    /\ report' = Nil
    /\ UNCHANGED <<input, err>>

HelperNext == RoundTrip \/ Discard

HelperSpec == Init /\ [][HelperNext]_vars

Converted == pc = "converted"

\* every channel of rgb is within 1 of the channel of the colour converted
WithinOne(rgb) ==
    /\ rgb[1] - color.r \in {0 - 1, 0, 1}
    /\ rgb[2] - color.g \in {0 - 1, 0, 1}
    /\ rgb[3] - color.b \in {0 - 1, 0, 1}

\* C12: for every RGB triple with channels in 0..255,
\* hslToRGB(rgbToHSL(r, g, b)) is within 1 of (r, g, b) on each channel.
C12_HSLRoundTrip == Converted => WithinOne(report.hsl)

C12_Witness ==
    /\ Converted
    /\ color.r = 254 /\ color.g = 1 /\ color.b = 255
    /\ report.hsl = <<254, 1, 255>>

\* C13: for every RGB triple with channels in 0..255, hwbToRGB applied to
\* rgbToHWB(r, g, b), whiteness and blackness as fractions, is within 1 of
\* (r, g, b) on each channel; an achromatic triple takes the gray branch.
C13_HWBRoundTrip ==
    Converted =>
        /\ WithinOne(report.hwb.rgb)
        /\ Achromatic => report.hwb.gray

C13_Witness ==
    /\ Converted
    /\ color.r = 254 /\ color.g = 254 /\ color.b = 254
    /\ report.hwb.gray
    /\ report.hwb.rgb = <<254, 254, 254>>

(***************************************************************************)
(* Invocations in progress together.  Every invocation of toolAnalyzeColor *)
(* has its own parameter and its own locals (r, g, b, a, hasAlpha, parsed) *)
(* and allocates its own maps; the file declares no package-level          *)
(* variable.  Here pc, input, color, report and err are indexed by the     *)
(* invocation, and an invocation runs in two steps, parsing and reporting, *)
(* between which the others may run.                                       *)
(***************************************************************************)
Callers == 1..MaxCallers

ConcurrentInputs ==
    {<<"#", "7", "9", "5", "8", "9", "F", "9", "9">>,
     <<" ", "N", "o", "t", "A", "C", "o", "l", "o", "r", " ">>,
     <<"r", "g", "b", "(", "4", ",", " ", "4", ",", " ", "4", ")">>,
     <<"h", "s", "l", "(", "1", "2", "0", ",", " ", "5", "0", "%", ",", " ", "2", "5", "%", ")">>,
     <<"g", "r", "e", "y">>}

\* the parameter an invocation reads: every invocation that of the first
Param_Shared(inputs, i) == inputs[1]

\* the parameter an invocation reads: its own
Param(inputs, i) == inputs[i]

ConcurrentInit ==
    /\ pc = [i \in Callers |-> "idle"]
    /\ input = [i \in Callers |-> <<>>]
    /\ color = [i \in Callers |-> Nil]
    /\ report = [i \in Callers |-> Nil]
    /\ err = [i \in Callers |-> <<>>]

\* the call: the argument is bound to the parameter
Enter(i) ==
    /\ pc[i] = "idle"
    /\ \E raw \in ConcurrentInputs : input' = [input EXCEPT ![i] = raw]
    /\ pc' = [pc EXCEPT ![i] = "parsing"]
    /\ UNCHANGED <<color, report, err>>

\* normalisation and the if/else chain: the locals are set
Parse(i) ==
    /\ pc[i] = "parsing"
    /\ color' = [color EXCEPT ![i] = ParseColor(ToLower(TrimSpace(Param(input, i))))]
    /\ pc' = [pc EXCEPT ![i] = "parsed"]
    /\ UNCHANGED <<input, report, err>>

\* the early return, or clamping and the report
Finish(i) ==
    /\ pc[i] = "parsed"
    /\ \E p \in {color[i]}, in \in {ToLower(TrimSpace(Param(input, i)))} :
          IF ~p.parsed
          THEN /\ color' = [color EXCEPT ![i] = Nil]
               /\ report' = [report EXCEPT ![i] = Nil]
               /\ err' = [err EXCEPT ![i] = ErrorPrefix \o in]
          ELSE \E c \in {Canonical(p)} :
               /\ color' = [color EXCEPT ![i] = c]
               /\ report' = [report EXCEPT ![i] = Report(in, c)]
               /\ err' = [err EXCEPT ![i] = <<>>]
    /\ pc' = [pc EXCEPT ![i] = "done"]
    /\ UNCHANGED input

\* the caller has consumed the result
Leave(i) ==
    /\ pc[i] = "done"
    /\ pc' = [pc EXCEPT ![i] = "idle"]
    /\ input' = [input EXCEPT ![i] = <<>>]
    /\ color' = [color EXCEPT ![i] = Nil]
    /\ report' = [report EXCEPT ![i] = Nil]
    /\ err' = [err EXCEPT ![i] = <<>>]

ConcurrentNext == \E i \in Callers : Enter(i) \/ Parse(i) \/ Finish(i) \/ Leave(i)

ConcurrentSpec == ConcurrentInit /\ [][ConcurrentNext]_vars

\* C15: whatever the other invocations do and wherever they stand, an
\* invocation that has finished holds exactly what toolAnalyzeColor yields
\* for its own input.
C15_ResultDependsOnInputAlone ==
    \A i \in Callers :
        pc[i] = "done" =>
            [color |-> color[i], report |-> report[i], err |-> err[i]]
                = toolAnalyzeColor(input[i])

C15_Witness ==
    /\ pc[1] = "parsed"
    /\ pc[2] = "done"
    /\ input[1] = <<"g", "r", "e", "y">>
    /\ input[2] = <<" ", "N", "o", "t", "A", "C", "o", "l", "o", "r", " ">>
    /\ color[1].parsed
    /\ report[2] = Nil
    /\ err[2] = ErrorPrefix \o <<"n", "o", "t", "a", "c", "o", "l", "o", "r">>

(***************************************************************************)
(* C16: functional notations with too few numeric tokens.                  *)
(***************************************************************************)
Functional(n) == \E p \in FunctionalPrefixes : HasPrefix(n, p)

\* every numeric token of n, read with the pattern of the branch that the
\* prefix of n selects
NumericTokens(n) ==
    IF HasPrefix(n, <<"r", "g", "b", "a">>) THEN FindAllString(n, 1, TRUE, FALSE, Len(n))
    ELSE IF HasPrefix(n, <<"r", "g", "b">>) THEN FindAllString(n, 1, FALSE, FALSE, Len(n))
    ELSE IF HasPrefix(n, <<"h", "s", "l">>) \/ HasPrefix(n, <<"h", "w", "b">>)
    THEN FindAllString(n, 1, TRUE, FALSE, Len(n))
    ELSE FindAllString(n, 1, TRUE, TRUE, Len(n))

\* C16: an input with a functional prefix (rgb, rgba, hsl, hsla, hwb, lab,
\* lch, oklab, oklch) that holds fewer than three numeric tokens ends in the
\* parse error, with no colour and no report.
C16_TooFewTokensFail ==
    (Returned /\ Functional(Normalized(input))
              /\ Len(NumericTokens(Normalized(input))) < 3)
        => /\ color = Nil
           /\ report = Nil
           /\ err = ErrorPrefix \o Normalized(input)

C16_Witness ==
    /\ Returned
    /\ input = <<"h", "s", "l", "(", "1", "2", "0", ",", " ", "5", "0", "%", ")">>
    /\ Len(NumericTokens(Normalized(input))) = 2
    /\ report = Nil
    /\ err = ErrorPrefix \o input

(***************************************************************************)
(* C17 - C19: the hex family.                                              *)
(***************************************************************************)
HexLengths == {3, 4, 6, 8}

\* a string of hexadecimal digits of one of the four lengths, without '#'
BareHex(n) == Len(n) \in HexLengths /\ AllHexDigits(n)

\* C17 as stated: a string H of hexadecimal digits of length 3, 4, 6 or 8
\* given without '#' is parsed as hex and yields the canonical colour that
\* '#' followed by H yields.
C17_HexWithoutHashSameAsWithHash ==
    (Returned /\ BareHex(Normalized(input)))
        => /\ color # Nil
           /\ color = toolAnalyzeColor(<<"#">> \o input).color

\* C18 as stated: a '#'-prefixed input whose remainder holds a character
\* that is not a hexadecimal digit, or whose remainder is not 3, 4, 6 or 8
\* characters long, ends in the parse error and yields no colour.
C18_MalformedHashInputFails ==
    (Returned /\ HasPrefix(Normalized(input), <<"#">>)
              /\ ~BareHex(Tail(Normalized(input))))
        => /\ color = Nil
           /\ report = Nil
           /\ err = ErrorPrefix \o Normalized(input)

\* every digit of h written twice
Doubled(h) == [i \in 1..(2 * Len(h)) |-> h[(i + 1) \div 2]]

\* the input without its leading '#', if it has one
Remainder(n) == TrimPrefix(n, <<"#">>)

\* the leading '#' of the input, if it has one
Hash(n) == IF HasPrefix(n, <<"#">>) THEN <<"#">> ELSE <<>>

\* the colour of a short hex string h: every digit times 17, alpha from the
\* fourth digit when there is one
Expanded(h) ==
    [r |-> 17 * HexVal(h[1]), g |-> 17 * HexVal(h[2]), b |-> 17 * HexVal(h[3]),
     a |-> IF Len(h) = 4 THEN 17 * HexVal(h[4]) ELSE 255,
     hasAlpha |-> Len(h) = 4]

ShortHexExpansion ==
    /\ color # Nil
    /\ color = Expanded(Remainder(Normalized(input)))
    /\ color = toolAnalyzeColor(Hash(Normalized(input))
                                \o Doubled(Remainder(Normalized(input)))).color

\* C19 as stated: every input of 3 or 4 hexadecimal digits, with or without
\* '#', yields the colour whose channels are the digits times 17, which is
\* the colour of the input with every digit doubled; hasAlpha is set for 4
\* and 8 digits and not for 3 and 6.
C19_ShortHexExpansion ==
    /\ (Returned /\ BareHex(Remainder(Normalized(input)))
                 /\ Len(Remainder(Normalized(input))) \in {3, 4})
           => ShortHexExpansion
    /\ (Returned /\ BareHex(Remainder(Normalized(input))) /\ color # Nil)
           => (color.hasAlpha <=> Len(Remainder(Normalized(input))) \in {4, 8})

\* the part of C19 that the code keeps: the inputs the hex branch takes,
\* which are those with '#' and those of 4 digits without it
ShortHexExpansionWhenTaken ==
    /\ (Returned /\ BareHex(Remainder(Normalized(input)))
                 /\ \/ Len(Remainder(Normalized(input))) = 4
                    \/ /\ Len(Remainder(Normalized(input))) = 3
                       /\ HasPrefix(Normalized(input), <<"#">>))
           => ShortHexExpansion
    /\ (Returned /\ BareHex(Remainder(Normalized(input))) /\ color # Nil)
           => (color.hasAlpha <=> Len(Remainder(Normalized(input))) \in {4, 8})

(***************************************************************************)
(* C20: the prefix rgb without the a.                                      *)
(***************************************************************************)
PlainRGB(n) == HasPrefix(n, <<"r", "g", "b">>) /\ ~HasPrefix(n, <<"r", "g", "b", "a">>)

\* every run of digits of n
IntegerTokens(n) == FindAllString(n, 1, FALSE, FALSE, Len(n))

\* C20: an input with the prefix rgb, not rgba, that holds at least three
\* runs of digits yields the colour of the first three, clamped, with
\* a = 255, hasAlpha = false and no alpha entry, whatever follows them; with
\* fewer than three it ends in the parse error.
C20_PlainRGBNeverCarriesAlpha ==
    (Returned /\ PlainRGB(Normalized(input))) =>
        IF Len(IntegerTokens(Normalized(input))) >= 3
        THEN /\ color = [r |-> clamp(Atoi(IntegerTokens(Normalized(input))[1])),
                         g |-> clamp(Atoi(IntegerTokens(Normalized(input))[2])),
                         b |-> clamp(Atoi(IntegerTokens(Normalized(input))[3])),
                         a |-> 255, hasAlpha |-> FALSE]
             /\ report # Nil
             /\ ~report.has_alpha
             /\ AlphaFields \cap DOMAIN report.formats = {}
        ELSE color = Nil /\ report = Nil

C20_Witness ==
    /\ Succeeded
    /\ input = <<"r", "g", "b", "(", "1", "0", " ", "2", "0", " ", "3", "0", " ", "/", " ", "0", ".", "5", ")">>
    /\ Len(IntegerTokens(Normalized(input))) = 5
    /\ color = [r |-> 10, g |-> 20, b |-> 30, a |-> 255, hasAlpha |-> FALSE]
    /\ ~report.has_alpha

(***************************************************************************)
(* C21: the hue of hsl(...).                                               *)
(***************************************************************************)
\* hues written into hsl(h, s%, l%): the generated ones and a negative one
WrittenHues == HueTokens \cup {0 - 120}

HslCall(h, sat, lit) == Call3(<<"h", "s", "l">>, FormatInt(h), Percent(sat), Percent(lit))

\* the colour of hsl(h, s%, l%) is the colour of the same text with h mod 360
HueWraps(h, sat, lit) ==
    (Returned /\ input = HslCall(h, sat, lit))
        => /\ color # Nil
           /\ color = toolAnalyzeColor(HslCall(h % 360, sat, lit)).color

\* C21 as stated: for every hue, negative ones included, hsl(h, s%, l%)
\* yields the colour of hsl(h mod 360, s%, l%); hue -120 that of hue 240,
\* hue 480 that of hue 120.
C21_HueWrappedModulo360 ==
    \A h \in WrittenHues, sat \in PercentTokens, lit \in PercentTokens :
        HueWraps(h, sat, lit)

\* the part of C21 that the code keeps: hues written without a sign
HueWrapsWhenUnsigned ==
    \A h \in HueTokens, sat \in PercentTokens, lit \in PercentTokens :
        HueWraps(h, sat, lit)

(***************************************************************************)
(* C22 - C24: the accessibility block and the HSL entry of the report.     *)
(***************************************************************************)
\* C22: the recommended text colour is black exactly when contrastBlack is
\* greater than contrastWhite and white otherwise; the contrast of the
\* recommended colour, computed or reported, is never the smaller one.
C22_RecommendedTextColor ==
    Succeeded =>
        /\ report.accessibility.recommended_text_color \in {"black", "white"}
        /\ report.accessibility.recommended_text_color = "black"
              <=> RLess(ContrastWhite(Lum), ContrastBlack(Lum))
        /\ report.accessibility.recommended_text_color = "black"
              => RLeq(report.accessibility.contrast_white,
                      report.accessibility.contrast_black)
        /\ report.accessibility.recommended_text_color = "white"
              => /\ RLeq(ContrastBlack(Lum), ContrastWhite(Lum))
                 /\ RLeq(report.accessibility.contrast_black,
                         report.accessibility.contrast_white)

C22_Witness ==
    /\ Succeeded
    /\ input = <<"y", "e", "l", "l", "o", "w">>
    /\ RLess(ContrastWhite(Lum), ContrastBlack(Lum))
    /\ report.accessibility.recommended_text_color = "black"

\* the HSL coordinate of the canonical colour, before it is rounded
Hsl == rgbToHSL(color.r, color.g, color.b)

\* C23 as stated: the hue the report emits, rounded to whole degrees, is at
\* least 0 and less than 360, and saturation and lightness lie in 0..100.
C23_ReportedHSLInDomain ==
    Succeeded =>
        /\ report.formats.hsl.h \in 0..359
        /\ MathRound(report.formats.hsl_css.args[1]) \in 0..359
        /\ report.formats.hsl.s \in 0..100
        /\ report.formats.hsl.l \in 0..100

\* what the code keeps of C23: the coordinate before rounding is in its
\* domain, and the rounded hue is at most 360
HSLInDomainBeforeRounding ==
    Succeeded =>
        /\ RLeq(RInt(0), Hsl.h) /\ RLess(Hsl.h, RInt(360))
        /\ Between(0, Hsl.s, 1)
        /\ Between(0, Hsl.l, 1)
        /\ report.formats.hsl.h \in 0..360
        /\ report.formats.hsl.s \in 0..100
        /\ report.formats.hsl.l \in 0..100

\* C24: wcag_aa_compliant is true in every report, because for every
\* luminance at least one of contrastWhite and contrastBlack is 4.5 or more.
C24_AACompliantAlwaysTrue ==
    Succeeded =>
        /\ report.accessibility.wcag_aa_compliant = TRUE
        /\ \/ RLeq(Rat(45, 10), ContrastWhite(Lum))
           \/ RLeq(Rat(45, 10), ContrastBlack(Lum))

\* a report whose flag is true although the contrast against white is below
\* 4.5 and below the AAA threshold against black as well
C24_Witness ==
    /\ Succeeded
    /\ RLess(ContrastWhite(Lum), Rat(45, 10))
    /\ RLess(ContrastBlack(Lum), RInt(7))
    /\ report.accessibility.wcag_aa_compliant = TRUE

(***************************************************************************)
(* The server loop: main, handleRequest, executeTool and toolConvert.      *)
(* In ServerSpec the variables hold: pc, the position of main; input, the  *)
(* lines read from standard input so far; color, the request decoded from  *)
(* the last line that held one; report, the lines written to standard      *)
(* output; err, what the runtime wrote to standard error.                  *)
(*                                                                         *)
(* A JSON value is [str |-> s], [num |-> n] or [arr |-> values]; a JSON    *)
(* object is a record of such values.                                      *)
(***************************************************************************)
\* the unit names of inferCategory, by the category it returns
UnitNames ==
    [length |->
         {<<"m">>, <<"m", "e", "t", "e", "r">>,
          <<"m", "e", "t", "e", "r", "s">>, <<"k", "m">>,
          <<"k", "i", "l", "o", "m", "e", "t", "e", "r">>, <<"c", "m">>,
          <<"c", "e", "n", "t", "i", "m", "e", "t", "e", "r">>, <<"m", "m">>,
          <<"m", "i", "l", "l", "i", "m", "e", "t", "e", "r">>, <<"m", "i">>,
          <<"m", "i", "l", "e">>, <<"m", "i", "l", "e", "s">>, <<"f", "t">>,
          <<"f", "o", "o", "t">>, <<"f", "e", "e", "t">>, <<"i", "n">>,
          <<"i", "n", "c", "h">>, <<"i", "n", "c", "h", "e", "s">>,
          <<"y", "d">>, <<"y", "a", "r", "d">>, <<"y", "a", "r", "d", "s">>},
     weight |->
         {<<"k", "g">>, <<"k", "i", "l", "o", "g", "r", "a", "m">>, <<"g">>,
          <<"g", "r", "a", "m">>, <<"m", "g">>,
          <<"m", "i", "l", "l", "i", "g", "r", "a", "m">>, <<"l", "b">>,
          <<"l", "b", "s">>, <<"p", "o", "u", "n", "d">>, <<"o", "z">>,
          <<"o", "u", "n", "c", "e">>, <<"s", "t", "o", "n", "e">>},
     temperature |->
         {<<"c">>, <<"c", "e", "l", "s", "i", "u", "s">>, <<"f">>,
          <<"f", "a", "h", "r", "e", "n", "h", "e", "i", "t">>, <<"k">>,
          <<"k", "e", "l", "v", "i", "n">>},
     digital |->
         {<<"b">>, <<"b", "y", "t", "e", "s">>, <<"k", "b">>,
          <<"k", "i", "l", "o", "b", "y", "t", "e", "s">>, <<"m", "b">>,
          <<"m", "e", "g", "a", "b", "y", "t", "e", "s">>, <<"g", "b">>,
          <<"g", "i", "g", "a", "b", "y", "t", "e", "s">>, <<"t", "b">>,
          <<"t", "e", "r", "a", "b", "y", "t", "e", "s">>},
     css |->
         {<<"p", "x">>, <<"p", "i", "x", "e", "l", "s">>, <<"r", "e", "m">>,
          <<"e", "m">>, <<"p", "t">>, <<"p", "o", "i", "n", "t", "s">>,
          <<"%">>, <<"p", "e", "r", "c", "e", "n", "t">>},
     color |->
         {<<"h", "e", "x">>,
          <<"h", "e", "x", "a", "d", "e", "c", "i", "m", "a", "l">>,
          <<"r", "g", "b">>, <<"c", "o", "l", "o", "r">>,
          <<"c", "o", "l", "o", "u", "r">>, <<"h", "s", "l">>},
     crypto |->
         {<<"b", "t", "c">>, <<"b", "i", "t", "c", "o", "i", "n">>,
          <<"s", "a", "t">>, <<"s", "a", "t", "s">>,
          <<"s", "a", "t", "o", "s", "h", "i">>,
          <<"s", "a", "t", "o", "s", "h", "i", "s">>, <<"m", "b", "t", "c">>,
          <<"m", "i", "l", "l", "i", "b", "i", "t", "c", "o", "i", "n">>,
          <<"e", "t", "h">>, <<"e", "t", "h", "e", "r">>,
          <<"g", "w", "e", "i">>, <<"w", "e", "i">>},
     duration |->
         {<<"m", "s">>,
          <<"m", "i", "l", "l", "i", "s", "e", "c", "o", "n", "d">>,
          <<"m", "i", "l", "l", "i", "s", "e", "c", "o", "n", "d", "s">>,
          <<"s">>, <<"s", "e", "c">>, <<"s", "e", "c", "o", "n", "d">>,
          <<"s", "e", "c", "o", "n", "d", "s">>, <<"m", "i", "n">>,
          <<"m", "i", "n", "u", "t", "e">>,
          <<"m", "i", "n", "u", "t", "e", "s">>, <<"h">>, <<"h", "r">>,
          <<"h", "o", "u", "r">>, <<"h", "o", "u", "r", "s">>, <<"d">>,
          <<"d", "a", "y">>, <<"d", "a", "y", "s">>, <<"w">>, <<"w", "k">>,
          <<"w", "e", "e", "k">>, <<"w", "e", "e", "k", "s">>},
     speed |->
         {<<"m", "p", "h">>, <<"k", "m", "/", "h">>, <<"k", "m", "h">>,
          <<"k", "p", "h">>, <<"m", "/", "s">>, <<"m", "p", "s">>,
          <<"f", "t", "/", "s">>, <<"f", "p", "s">>, <<"k", "n", "o", "t">>,
          <<"k", "n", "o", "t", "s">>, <<"k", "n">>},
     area |->
         {<<"s", "q", "f", "t">>, <<"s", "q", " ", "f", "t">>,
          <<"s", "q", "m">>, <<"s", "q", " ", "m">>, <<"s", "q", "k", "m">>,
          <<"s", "q", " ", "k", "m">>, <<"s", "q", "m", "i">>,
          <<"s", "q", " ", "m", "i">>, <<"a", "c", "r", "e">>,
          <<"a", "c", "r", "e", "s">>, <<"h", "e", "c", "t", "a", "r", "e">>,
          <<"h", "e", "c", "t", "a", "r", "e", "s">>, <<"h", "a">>},
     volume |->
         {<<"l">>, <<"l", "i", "t", "e", "r">>,
          <<"l", "i", "t", "e", "r", "s">>, <<"l", "i", "t", "r", "e">>,
          <<"l", "i", "t", "r", "e", "s">>, <<"m", "l">>,
          <<"m", "i", "l", "l", "i", "l", "i", "t", "e", "r">>,
          <<"m", "i", "l", "l", "i", "l", "i", "t", "e", "r", "s">>,
          <<"g", "a", "l">>, <<"g", "a", "l", "l", "o", "n">>,
          <<"g", "a", "l", "l", "o", "n", "s">>, <<"f", "l", "o", "z">>,
          <<"f", "l", " ", "o", "z">>, <<"c", "u", "p">>,
          <<"c", "u", "p", "s">>, <<"p", "i", "n", "t">>,
          <<"p", "i", "n", "t", "s">>, <<"q", "t">>,
          <<"q", "u", "a", "r", "t">>, <<"q", "u", "a", "r", "t", "s">>}]

inferCategory(unit) ==
    LET Category(u) ==
        CASE u \in UnitNames.length      -> "length"
          [] u \in UnitNames.weight      -> "weight"
          [] u \in UnitNames.temperature -> "temperature"
          [] u \in UnitNames.digital     -> "digital"
          [] u \in UnitNames.css         -> "css"
          [] u \in UnitNames.color       -> "color"
          [] u \in UnitNames.crypto      -> "crypto"
          [] u \in UnitNames.duration    -> "duration"
          [] u \in UnitNames.speed       -> "speed"
          [] u \in UnitNames.area        -> "area"
          [] u \in UnitNames.volume      -> "volume"
          [] OTHER                       -> ""
    IN  Category(ToLower(TrimSpace(unit)))

\* args[key].(string) with the ok flag discarded: the empty string when the
\* key is missing or its value is not a string
StringArg(args, key) ==
    IF key \in DOMAIN args /\ "str" \in DOMAIN args[key]
    THEN args[key].str
    ELSE <<>>

\* args[key].(float64) with the ok flag discarded
NumberArg(args, key) ==
    IF key \in DOMAIN args /\ "num" \in DOMAIN args[key]
    THEN args[key].num
    ELSE 0

\* what a tool returns: a result and an error text, one of them empty
Returns(res, eStr) == [res |-> res, err |-> eStr]

\* a result of a tool outside the colour engine: the call that yields it
Computed(fn, args) == Returns([fn |-> fn, args |-> args], <<>>)

\* a run-time panic: the process writes the message to standard error and
\* terminates
Panic == [panic |-> "interface conversion: interface {} is string, not float64"]

\* toolAnalyzeColor as executeTool and toolConvert see it
AnalyzeColor(col) ==
    LET Pair(out) == Returns(out.report, out.err)
    IN  Pair(toolAnalyzeColor(col))

\* the ways the numeric and time conversions of toolConvert can end; which
\* one is taken depends on the value, the unit and the clock
UnitOrTimeOutcomes == {"converted", "unparsable"}

CouldNotParseAsTime ==
    <<"C", "o", "u", "l", "d", " ", "n", "o", "t", " ", "p", "a", "r", "s", "e", " ">>
        \o <<"a", "s", " ", "t", "i", "m", "e", " ", "o", "r", " ", "u", "n", "i", "t", ":", " ">>

\* rest: how toolConvertUnits or toolConvertTime ends when the unit is not a
\* colour unit
toolConvert(valStr, unitStr, rest) ==
    IF inferCategory(unitStr) = "color"
    THEN AnalyzeColor(valStr)
    ELSE IF rest = "converted"
         THEN Computed("toolConvertUnits or toolConvertTime", <<valStr, unitStr>>)
         ELSE Returns(Nil, CouldNotParseAsTime \o valStr)

toolCompare(valA, unitA, valB, unitB) ==
    Computed("toolCompare", <<valA, unitA, valB, unitB>>)

toolTransformString(text) == Computed("toolTransformString", <<text>>)

InvalidJWTFormat == <<"I", "n", "v", "a", "l", "i", "d", " ", "J", "W", "T", " ", "f", "o", "r", "m", "a", "t">>

\* strings.Split(token, ".") must give three parts
toolInspectJWT(token) ==
    IF Cardinality({i \in 1..Len(token) : token[i] = "."}) + 1 # 3
    THEN Returns(Nil, InvalidJWTFormat)
    ELSE Computed("toolInspectJWT", <<token>>)

toolGenerateMockData(dtype, count) ==
    Computed("toolGenerateMockData", <<dtype, IF count <= 0 THEN 1 ELSE count>>)

EmptyList == <<"E", "m", "p", "t", "y", " ", "l", "i", "s", "t">>

toolCalculateStatistics(nums) ==
    IF Len(nums) = 0
    THEN Returns(Nil, EmptyList)
    ELSE Computed("toolCalculateStatistics", <<nums>>)

InvalidNumbersArray == <<"I", "n", "v", "a", "l", "i", "d", " ", "n", "u", "m", "b", "e", "r", "s", " ", "a", "r", "r", "a", "y">>

ToolNotFound == <<"T", "o", "o", "l", " ", "n", "o", "t", " ", "f", "o", "u", "n", "d">>

\* the dispatch on the tool name; the type assertion on an element of
\* "numbers" has no ok flag and panics on any value that is not a number
executeTool(name, args, rest) ==
    CASE name = "convert" ->
            toolConvert(StringArg(args, "value"), StringArg(args, "unit"), rest)
      [] name = "compare" ->
            toolCompare(StringArg(args, "value_a"), StringArg(args, "unit_a"),
                        StringArg(args, "value_b"), StringArg(args, "unit_b"))
      [] name = "transform_string" ->
            toolTransformString(StringArg(args, "text"))
      [] name = "analyze_color" ->
            AnalyzeColor(StringArg(args, "color_input"))
      [] name = "inspect_jwt" ->
            toolInspectJWT(StringArg(args, "token"))
      [] name = "generate_mock_data" ->
            toolGenerateMockData(StringArg(args, "data_type"),
                                 NumberArg(args, "count"))
      [] name = "calculate_statistics" ->
            IF ~("numbers" \in DOMAIN args /\ "arr" \in DOMAIN args.numbers)
            THEN Returns(Nil, InvalidNumbersArray)
            ELSE IF \E i \in 1..Len(args.numbers.arr) :
                        "num" \notin DOMAIN args.numbers.arr[i]
                 THEN Panic
                 ELSE toolCalculateStatistics(
                          [i \in 1..Len(args.numbers.arr) |->
                              args.numbers.arr[i].num])
      [] OTHER -> Returns(Nil, ToolNotFound)

ErrorColon == <<"E", "r", "r", "o", "r", ":", " ">>

\* json.MarshalIndent of a tool's result: the text is not rendered
MarshalIndent(res) == [fn |-> "json.MarshalIndent", of |-> res]

getToolDefinitions ==
    <<"convert", "compare", "transform_string", "analyze_color",
      "inspect_jwt", "generate_mock_data", "calculate_statistics">>

\* the line handleRequest prints: a JSONRPCResponse; Nil stands for a field
\* that omitempty leaves out
JSONRPCResponse(result, error, id) ==
    [jsonrpc |-> "2.0", result |-> result, error |-> error, id |-> id]

RPCError(code, message) == [code |-> code, message |-> message]

\* the result of tools/call
ToolResult(out) ==
    IF out.err # <<>>
    THEN [content |-> <<[type |-> "text", text |-> ErrorColon \o out.err]>>,
          isError |-> TRUE]
    ELSE [content |-> <<[type |-> "text", text |-> MarshalIndent(out.res)]>>]

\* handleRequest that reports a tool's error text as a JSON-RPC error object
handleRequest_ErrorAsRPCError(req, rest) ==
    LET Answer(out) ==
            IF out = Panic
            THEN Panic
            ELSE IF out.err # <<>>
                 THEN JSONRPCResponse(Nil, RPCError(0 - 32000, out.err), req.id)
                 ELSE JSONRPCResponse(ToolResult(out), Nil, req.id)
    IN  CASE req.method = "initialize" ->
                JSONRPCResponse(
                    [protocolVersion |-> "2024-11-05",
                     capabilities    |-> [tools |-> Nil],
                     serverInfo      |-> [name |-> "omni-tool", version |-> "1.0.0"]],
                    Nil, req.id)
          [] req.method = "notifications/initialized" -> Nil
          [] req.method = "tools/list" ->
                JSONRPCResponse([tools |-> getToolDefinitions], Nil, req.id)
          [] req.method = "tools/call" ->
                IF "name" \notin DOMAIN req.params
                THEN JSONRPCResponse(Nil, RPCError(0 - 32602, "Invalid params"), req.id)
                ELSE Answer(executeTool(req.params.name, req.params.arguments, rest))
          [] OTHER ->
                IF req.id # Nil
                THEN JSONRPCResponse(Nil, RPCError(0 - 32601, "Method not found"), req.id)
                ELSE Nil

\* the line handleRequest prints for req, Nil when it prints none, Panic when
\* it does not return
handleRequest(req, rest) ==
    LET Answer(out) ==
            IF out = Panic
            THEN Panic
            ELSE JSONRPCResponse(ToolResult(out), Nil, req.id)
    IN  CASE req.method = "initialize" ->
                JSONRPCResponse(
                    [protocolVersion |-> "2024-11-05",
                     capabilities    |-> [tools |-> Nil],
                     serverInfo      |-> [name |-> "omni-tool", version |-> "1.0.0"]],
                    Nil, req.id)
          [] req.method = "notifications/initialized" -> Nil
          [] req.method = "tools/list" ->
                JSONRPCResponse([tools |-> getToolDefinitions], Nil, req.id)
          [] req.method = "tools/call" ->
                IF "name" \notin DOMAIN req.params
                THEN JSONRPCResponse(Nil, RPCError(0 - 32602, "Invalid params"), req.id)
                ELSE Answer(executeTool(req.params.name, req.params.arguments, rest))
          [] OTHER ->
                IF req.id # Nil
                THEN JSONRPCResponse(Nil, RPCError(0 - 32601, "Method not found"), req.id)
                ELSE Nil

(***************************************************************************)
(* The lines standard input can hold.                                      *)
(***************************************************************************)
\* a JSONRPCRequest; id is Nil when the line has none, params is Nil when
\* the line has none
JSONRPCRequest(method, id, params) ==
    [method |-> method, id |-> id, params |-> params]

\* params that json.Unmarshal decodes into CallToolParams
CallToolParams(name, arguments) == [name |-> name, arguments |-> arguments]

\* params that json.Unmarshal rejects
BadParams == [malformed |-> TRUE]

Id(n) == [num |-> n]

Str(s) == [str |-> s]

EmptyLine == [len |-> 0, json |-> Nil]

\* a line json.Unmarshal cannot decode into a JSONRPCRequest
MalformedLine == [len |-> 1, json |-> Nil]

RequestLine(req) == [len |-> 1, json |-> req]

CallLine(id, name, arguments) ==
    RequestLine(JSONRPCRequest("tools/call", id, CallToolParams(name, arguments)))

ProtocolLines ==
    {EmptyLine,
     MalformedLine,
     RequestLine(JSONRPCRequest("initialize", Id(1), Nil)),
     RequestLine(JSONRPCRequest("notifications/initialized", Nil, Nil)),
     RequestLine(JSONRPCRequest("notifications/initialized", Id(2), Nil)),
     RequestLine(JSONRPCRequest("tools/list", Id(3), Nil)),
     RequestLine(JSONRPCRequest("ping", Id(4), Nil)),
     RequestLine(JSONRPCRequest("ping", Nil, Nil)),
     RequestLine(JSONRPCRequest("tools/call", Id(5), BadParams))}

ColourLines ==
    {CallLine(Id(6), "analyze_color",
              [color_input |-> Str(<<" ", "G", "r", "e", "y", " ">>)]),
     CallLine(Id(7), "analyze_color",
              [color_input |-> Str(<<"n", "o", "t", "a", "c", "o", "l", "o", "r">>)]),
     CallLine(Nil, "analyze_color",
              [color_input |-> Str(<<"#", "0", "F", "0">>)]),
     CallLine(Id(8), "convert",
              [value |-> Str(<<"#", "0", "f", "0">>), unit |-> Str(<<"h", "e", "x">>)]),
     CallLine(Id(9), "convert",
              [value |-> Str(<<"z", "z", "z">>), unit |-> Str(<<"c", "o", "l", "o", "r">>)]),
     CallLine(Id(10), "convert",
              [value |-> Str(<<"h", "s", "l", "(", "1", "2", "0", ",", " ", "5", "0", "%", ")">>), unit |-> Str(<<"h", "s", "l">>)]),
     CallLine(Id(11), "convert",
              [value |-> Str(<<"r", "g", "b", "(", "4", ",", " ", "4", ",", " ", "4", ")">>), unit |-> Str(<<"r", "g", "b">>)])}

OtherToolLines ==
    {CallLine(Id(12), "convert",
              [value |-> Str(<<"1", "0">>), unit |-> Str(<<"k", "m">>)]),
     CallLine(Id(13), "calculate_statistics",
              [numbers |-> [arr |-> <<Str(<<"x">>)>>]]),
     CallLine(Id(14), "calculate_statistics",
              [numbers |-> [arr |-> <<[num |-> 3], [num |-> 1]>>]]),
     CallLine(Id(15), "calculate_statistics",
              [numbers |-> Str(<<"3", ",", " ", "1">>)]),
     CallLine(Id(16), "inspect_jwt",
              [token |-> Str(<<"a", ".", "b", ".", "c">>)]),
     CallLine(Id(17), "no_such_tool",
              [text |-> Str(<<"a">>)])}

Lines == ProtocolLines \cup ColourLines \cup OtherToolLines

(***************************************************************************)
(* The server as a state machine.                                          *)
(***************************************************************************)
ServerInit ==
    /\ pc = "scan"
    /\ input = <<>>
    /\ color = Nil
    /\ report = <<>>
    /\ err = <<>>

\* scanner.Scan returns true: the next line is read; an empty line and a
\* line that does not decode are skipped
Scan ==
    /\ pc = "scan"
    /\ Len(input) < MaxLines
    /\ \E line \in Lines :
          /\ input' = Append(input, line)
          /\ IF line.len = 0 \/ line.json = Nil
             THEN /\ pc' = "scan"
                  /\ UNCHANGED color
             ELSE /\ pc' = "handle"
                  /\ color' = line.json
    /\ UNCHANGED <<report, err>>

\* handleRequest(req): the response, if any, is printed
Handle ==
    /\ pc = "handle"
    /\ \E rest \in UnitOrTimeOutcomes :
          \E out \in {handleRequest(color, rest)} :
              IF out = Panic
              THEN /\ pc' = "panic"
                   /\ err' = Panic.panic
                   /\ UNCHANGED report
              ELSE /\ pc' = "scan"
                   /\ report' = IF out = Nil THEN report ELSE Append(report, out)
                   /\ UNCHANGED err
    /\ UNCHANGED <<input, color>>

\* scanner.Scan returns false: end of input, main returns
Exit ==
    /\ pc = "scan"
    /\ pc' = "exit"
    /\ UNCHANGED <<input, color, report, err>>

ServerNext == Scan \/ Handle \/ Exit

ServerSpec == ServerInit /\ [][ServerNext]_vars

\* control leaves handleRequest: it returns, or the process dies in it
HandleEnds == pc = "handle" /\ pc' \in {"scan", "panic"}

\* handleRequest is called as soon as a request is decoded and computes
\* without waiting for anything, so control does not stay in it for ever;
\* in ServerSpec the steps that take pc away from "handle" are the Handle
\* steps
FairServerSpec == ServerSpec /\ WF_pc(HandleEnds)

(***************************************************************************)
(* C25, C26: the server loop and the dispatcher.                           *)
(***************************************************************************)
\* the line is a request handleRequest answers: every request but
\* notifications/initialized and an unknown method without an id
Answered(line) ==
    /\ line.len > 0
    /\ line.json # Nil
    /\ line.json.method # "notifications/initialized"
    /\ line.json.method \in {"initialize", "tools/list", "tools/call"}
           \/ line.json.id # Nil

\* the ids of the requests among lines that are to be answered, in order
ExpectedIds(lines) ==
    LET Ids(sel) == [k \in 1..Len(sel) |-> sel[k].json.id]
    IN  Ids(SelectSeq(lines, Answered))

\* the ids of the responses written, in order
WrittenIds(out) == [k \in 1..Len(out) |-> out[k].id]

\* between two lines, the requests read so far have one response each, with
\* their ids and in their order, and nothing else has been written
ResponsesMatchRequests ==
    pc \in {"scan", "exit"} => WrittenIds(report) = ExpectedIds(input)

\* C25: every request line with an id (initialize, tools/list, tools/call
\* with any tool and arguments, unknown method) gets exactly one response
\* with its id, responses are written in the order of the requests,
\* notifications/initialized and id-less unknown methods get none, and after
\* every request the loop goes on to the next line.
C25_EveryRequestAnsweredInOrder ==
    /\ [](pc \in {"scan", "exit"} => WrittenIds(report) = ExpectedIds(input))
    /\ (pc = "handle") ~> (pc = "scan")

\* what the code keeps of C25: a request is answered and the loop goes on,
\* or the process has terminated with a panic
AnsweredUnlessPanic == (pc = "handle") ~> (pc = "scan" \/ pc = "panic")

\* the only requests that end in a panic: calculate_statistics with an
\* element of "numbers" that is not a number
PanicOnlyOnStatistics ==
    pc = "panic" =>
        /\ color.method = "tools/call"
        /\ color.params.name = "calculate_statistics"
        /\ \E i \in 1..Len(color.params.arguments.numbers.arr) :
              "num" \notin DOMAIN color.params.arguments.numbers.arr[i]
        /\ WrittenIds(report) = ExpectedIds(SubSeq(input, 1, Len(input) - 1))

\* the units the dispatcher is said to route to the colour engine
ColourUnits == {<<"h", "e", "x">>, <<"r", "g", "b">>, <<"h", "s", "l">>,
                <<"c", "o", "l", "o", "r">>}

\* the request is a tools/call for analyze_color, or for convert with a
\* colour unit
IsColourCall(req) ==
    /\ req.method = "tools/call"
    /\ "name" \in DOMAIN req.params
    /\ \/ req.params.name = "analyze_color"
       \/ /\ req.params.name = "convert"
          /\ StringArg(req.params.arguments, "unit") \in ColourUnits

\* the colour text of such a request
ColourOf(req) ==
    IF req.params.name = "analyze_color"
    THEN StringArg(req.params.arguments, "color_input")
    ELSE StringArg(req.params.arguments, "value")

\* the last line read was a colour call and has been handled
ColourCallHandled ==
    /\ pc \in {"scan", "exit"}
    /\ Len(input) > 0
    /\ input[Len(input)].json # Nil
    /\ IsColourCall(input[Len(input)].json)

\* the response to req is the one the claim describes for what the engine
\* returns for the colour
SurfacedAs(req, resp, engine) ==
    /\ resp.id = req.id
    /\ resp.error = Nil
    /\ IF engine.err # <<>>
       THEN /\ engine.report = Nil
            /\ resp.result = [content |-> <<[type |-> "text",
                                             text |-> ErrorColon \o engine.err]>>,
                              isError |-> TRUE]
       ELSE /\ engine.report # Nil
            /\ resp.result = [content |-> <<[type |-> "text",
                                             text |-> MarshalIndent(engine.report)]>>]
            /\ DOMAIN resp.result = {"content"}

\* C26: a tools/call for analyze_color, or for convert with a colour unit,
\* is answered with a JSON-RPC result and no error object; for an unparsable
\* colour its text is "Error: " followed by the engine's message and isError
\* is true, for a parsable colour it is the serialized report and there is
\* no isError field.
C26_ColourErrorsSurfaceAsToolErrors ==
    ColourCallHandled =>
        /\ Len(report) > 0
        /\ SurfacedAs(input[Len(input)].json, report[Len(report)],
                      toolAnalyzeColor(ColourOf(input[Len(input)].json)))

\* an unparsable colour given to convert with unit "color", then a parsable
\* one given to analyze_color
C26_Witness ==
    /\ pc = "scan"
    /\ Len(input) = 2
    /\ Len(report) = 2
    /\ IsColourCall(input[1].json)
    /\ input[1].json.params.name = "convert"
    /\ report[1].result.isError = TRUE
    /\ report[1].result.content[1].text
           = ErrorColon \o ErrorPrefix \o <<"z", "z", "z">>
    /\ report[1].id = Id(9)
    /\ IsColourCall(input[2].json)
    /\ input[2].json.params.name = "analyze_color"
    /\ DOMAIN report[2].result = {"content"}
    /\ report[2].result.content[1].text
           = MarshalIndent(toolAnalyzeColor(<<"g", "r", "e", "y">>).report)
    /\ report[2].id = Id(6)

====
